---- MODULE Spec2Model ----
(***************************************************************************)
(* goby-acomms: the queue manager (libqueue) of the acoustic communications *)
(* stack.  Byte strings are sequences of naturals (one element per byte;    *)
(* the source keeps them as hex strings, two nibbles per byte, and every    *)
(* offset it uses is a multiple of NIBS_IN_BYTE).                           *)
(***************************************************************************)
EXTENDS Integers, Sequences, FiniteSets, Bags, TLC

(***************************************************************************)
(* Program constants (dccl_constants.h / queue_constants.h / acomms         *)
(* constants, used by queue_manager.cpp).                                   *)
(***************************************************************************)
DCCL_NUM_HEADER_BYTES == 7
DCCL_CCL_HEADER == 32
BROADCAST_ID == 0

\* the greatest id of a DCCL queue
MAX_ID == 511

\* modem_id_ of the manager under study
OurModemId == 1

(***************************************************************************)
(* Bounds of the model.                                                     *)
(***************************************************************************)
MaxUserFrames == 3
MaxBody == 1
\* a body too long for its length to fit the size byte
LongBody == 256
MaxMsgsAck == 2
MaxTimeAck == 1
MaxMsgsPri == 3
MaxMsgsReg == 2
MaxTimePri == 2
\* most entries of the manager's waiting_for_ack_ multimap
MaxPending == 3

(***************************************************************************)
(* Sequence helpers (std::string substr / insert / erase / replace).        *)
(***************************************************************************)
Min(a, b) == IF a < b THEN a ELSE b

\* s.substr(pos, n), pos 0-based, clipped at the end of s
Substr(s, pos, n) == SubSeq(s, pos + 1, Min(Len(s), pos + n))

\* s.substr(pos): the rest of s
SubstrFrom(s, pos) == SubSeq(s, pos + 1, Len(s))

\* s.insert(pos, t)
Insert(s, pos, t) == SubSeq(s, 1, pos) \o t \o SubSeq(s, pos + 1, Len(s))

\* s.erase(pos, n)
Erase(s, pos, n) == SubSeq(s, 1, pos) \o SubSeq(s, pos + n + 1, Len(s))

\* s.replace(pos, n, t)
Replace(s, pos, n, t) == SubSeq(s, 1, pos) \o t \o SubSeq(s, pos + n + 1, Len(s))

(***************************************************************************)
(* The DCCL head: DCCL_NUM_HEADER_BYTES bytes, the first of which is the    *)
(* CCL-id; then DCCL id, time of day, source, destination, multi-message    *)
(* flag and broadcast flag.  Each field takes one element here.             *)
(***************************************************************************)
\* the values of one byte
BYTE_VALUES == 256

\* util::number2hex_string(n): the one byte that carries n
number2hex_string(n) == n % BYTE_VALUES

\* a byte of a possibly too short string (reads past the end give 0)
ByteAt(data, i) == IF i <= Len(data) THEN data[i] ELSE 0

\* DCCLHeaderDecoder(data): the fields of the head of data
HeaderDecode(data) ==
    [ccl_id |-> ByteAt(data, 1),
     dccl_id |-> ByteAt(data, 2),
     time |-> ByteAt(data, 3),
     src |-> ByteAt(data, 4),
     dest |-> ByteAt(data, 5),
     multimessage_flag |-> ByteAt(data, 6) % 2 = 1,
     broadcast_flag |-> ByteAt(data, 7) % 2 = 1]

\* a flag as its field of the head
FlagByte(b) == IF b THEN 1 ELSE 0

\* DCCLHeaderEncoder(head).get(): the DCCL_NUM_HEADER_BYTES bytes of a head
HeaderEncode(h) ==
    <<h.ccl_id, h.dccl_id, h.time, h.src, h.dest,
      FlagByte(h.multimessage_flag), FlagByte(h.broadcast_flag)>>

(***************************************************************************)
(* QueueManager::stitch_recursive.  in is a non-empty sequence of messages  *)
(* [data, dest]; data accumulates the packet.                               *)
(***************************************************************************)
\* (variant: the broadcast flag is left as it came)
StitchPieceKeepsBroadcast(message, is_last_user_frame) ==
    LET head == [HeaderDecode(message.data) EXCEPT
                    !.multimessage_flag = ~is_last_user_frame]
        sized == IF ~is_last_user_frame
                 THEN Insert(message.data, DCCL_NUM_HEADER_BYTES,
                             <<number2hex_string(
                                   Len(message.data)
                                       - DCCL_NUM_HEADER_BYTES)>>)
                 ELSE message.data
        new_data == Replace(sized, 0, DCCL_NUM_HEADER_BYTES, HeaderEncode(head))
    IN  SubstrFrom(new_data, 1)

\* the bytes one user frame contributes: flags set, size byte inserted unless
\* last, head re-encoded, CCL-id removed
StitchPiece(message, is_last_user_frame) ==
    LET head == [HeaderDecode(message.data) EXCEPT
                    !.multimessage_flag = ~is_last_user_frame,
                    !.broadcast_flag = (message.dest = BROADCAST_ID)]
        sized == IF ~is_last_user_frame
                 THEN Insert(message.data, DCCL_NUM_HEADER_BYTES,
                             <<number2hex_string(
                                   Len(message.data)
                                       - DCCL_NUM_HEADER_BYTES)>>)
                 ELSE message.data
        new_data == Replace(sized, 0, DCCL_NUM_HEADER_BYTES, HeaderEncode(head))
    IN  SubstrFrom(new_data, 1)

RECURSIVE stitch_recursive(_, _)
stitch_recursive(data, in) ==
    LET is_last_user_frame == (Len(in) = 1)
        grown == data \o StitchPiece(Head(in), is_last_user_frame)
    IN  IF is_last_user_frame
        THEN <<DCCL_CCL_HEADER>> \o grown
        ELSE stitch_recursive(grown, Tail(in))

\* QueueManager::stitch: the data of the outgoing packet
stitch(in) == stitch_recursive(<<>>, in)

(***************************************************************************)
(* Inbound: receive_incoming_modem_data, unstitch_recursive,                *)
(* publish_incoming_piece.  registered is the set of keys of queues_.       *)
(* The result is the sequence of callbacks made:                            *)
(*   [cb |-> "receive" | "receive_ccl", key, data, dest].                   *)
(***************************************************************************)
QueueKey(type, id) == <<type, id>>

\* (variant: the destination of the user frame is not looked at)
publish_incoming_piece_any_dest(registered, message, incoming_var_id) ==
    IF QueueKey("dccl", incoming_var_id) \notin registered
    THEN <<>>
    ELSE <<[cb |-> "receive", key |-> QueueKey("dccl", incoming_var_id),
            data |-> message.data, dest |-> message.dest]>>

\* publish_incoming_piece: the callbacks made for one user frame
publish_incoming_piece(registered, message, incoming_var_id) ==
    IF message.dest # BROADCAST_ID /\ message.dest # OurModemId
    THEN <<>>
    ELSE IF QueueKey("dccl", incoming_var_id) \notin registered
    THEN <<>>
    ELSE <<[cb |-> "receive", key |-> QueueKey("dccl", incoming_var_id),
            data |-> message.data, dest |-> message.dest]>>

\* (variant: the user frame is carved without the length of its head)
UserFrameDataNoHead(data, frame_size) == Substr(data, 0, frame_size)

\* the data of this user frame, carved from data once the size byte is erased
UserFrameData(data, frame_size) ==
    Substr(data, 0, frame_size + DCCL_NUM_HEADER_BYTES)

\* (variant: a user frame that is not handed up ends the packet)
UnstitchStopsOnDrop(multimessage_flag, published) ==
    multimessage_flag /\ published # <<>>

\* whether unstitch_recursive goes on to the next user frame; published are
\* the callbacks publish_incoming_piece made for this one
UnstitchGoesOn(multimessage_flag, published) == multimessage_flag

RECURSIVE unstitch_recursive(_, _, _)
unstitch_recursive(registered, data, original_dest) ==
    LET head == HeaderDecode(data)
        frame_size == ByteAt(data, DCCL_NUM_HEADER_BYTES + 1)
        erased == Erase(data, DCCL_NUM_HEADER_BYTES, 1)
        piece == IF head.multimessage_flag
                 THEN UserFrameData(erased, frame_size)
                 ELSE data
        rest == Erase(erased, 1, frame_size + DCCL_NUM_HEADER_BYTES - 1)
        cleared == [head EXCEPT !.multimessage_flag = FALSE,
                                !.broadcast_flag = FALSE]
        message == [data |-> Replace(piece, 0, DCCL_NUM_HEADER_BYTES,
                                     HeaderEncode(cleared)),
                    dest |-> IF head.broadcast_flag THEN BROADCAST_ID
                             ELSE original_dest]
        published == publish_incoming_piece(registered, message, head.dccl_id)
    IN  IF ~UnstitchGoesOn(head.multimessage_flag, published)
        THEN published
        ELSE published \o unstitch_recursive(registered, rest, original_dest)

\* receive_incoming_modem_data(message), message = [data, dest]
receive_incoming_modem_data(registered, message) ==
    IF Len(message.data) < DCCL_NUM_HEADER_BYTES
    THEN <<>>
    ELSE IF HeaderDecode(message.data).ccl_id = DCCL_CCL_HEADER
    THEN unstitch_recursive(registered, message.data, message.dest)
    ELSE IF QueueKey("ccl", HeaderDecode(message.data).ccl_id) \in registered
    THEN <<[cb |-> "receive_ccl",
            key |-> QueueKey("ccl", HeaderDecode(message.data).ccl_id),
            data |-> message.data, dest |-> message.dest]>>
    ELSE <<>>

(***************************************************************************)
(* Queue (queue.h; its member functions are defined outside the files at   *)
(* hand and follow the design description).  A queue is                     *)
(*   [cfg, messages, waiting_for_ack, last_send_time]                       *)
(* with messages a sequence of [mid, dest, ack, size, time] (mid names the  *)
(* list node, as a messages_it does) and waiting_for_ack a bag of           *)
(* <<frame, mid>> (the multimap frame -> messages_it).                      *)
(***************************************************************************)
NoMessage == [mid |-> 0, dest |-> 0, ack |-> FALSE, size |-> 0, time |-> 0]

\* Queue::size
size(q) == Len(q.messages)

\* Queue::newest_msg_time (the default ptime of an empty queue reads as 0)
newest_msg_time(q) ==
    IF size(q) # 0 THEN q.messages[Len(q.messages)].time ELSE 0

\* the mids some ACK-tracking entry refers to
AckWaitingMids(q) == {e[2] : e \in BagToSet(q.waiting_for_ack)}

\* Queue::find_ack_value(it) # waiting_for_ack_.end()
find_ack_value(q, mid) == mid \in AckWaitingMids(q)

\* the bag b without every entry that refers to message mid
EraseAckEntriesOf(b, mid) ==
    LET keep == {e \in BagToSet(b) : e[2] # mid}
    IN  [e \in keep |-> b[e]]

\* the list without node mid
EraseMessage(msgs, mid) == SelectSeq(msgs, LAMBDA m : m.mid # mid)

\* positions of the messages not waiting for an ACK
FreePositions(q) ==
    {i \in 1..Len(q.messages) : ~find_ack_value(q, q.messages[i].mid)}

\* Queue::next_message_it: the head (the end when newest_first) among the
\* messages not already waiting to be acknowledged
next_message_it(q) ==
    LET free == FreePositions(q)
    IN  IF free = {} THEN NoMessage
        ELSE IF q.cfg.newest_first
        THEN q.messages[CHOOSE i \in free : \A j \in free : j <= i]
        ELSE q.messages[CHOOSE i \in free : \A j \in free : i <= j]

\* Queue::push_message: timestamps, appends; a newest_first queue above
\* max_queue drops its oldest message (and the ACK entry of it), any other
\* queue at capacity rejects the new message.  Result: [q, ok].
QueuePush(q, msg, now) ==
    LET stamped == [msg EXCEPT !.time = now]
        full == q.cfg.max_queue > 0 /\ Len(q.messages) >= q.cfg.max_queue
    IN  IF ~full
        THEN [q |-> [q EXCEPT !.messages = Append(@, stamped)], ok |-> TRUE]
        ELSE IF q.cfg.newest_first
        THEN [q |-> [q EXCEPT
                       !.messages = Append(Tail(@), stamped),
                       !.waiting_for_ack =
                           EraseAckEntriesOf(@, Head(q.messages).mid)],
              ok |-> TRUE]
        ELSE [q |-> q, ok |-> FALSE]

\* Queue::give_data(frame): hands out the next message; an ACK-required
\* message gets a (frame -> message) entry.  Result: [q, msg].
QueueGiveData(q, frame, now) ==
    LET m == next_message_it(q)
    IN  [q |-> [q EXCEPT
                  !.waiting_for_ack =
                      IF m.ack THEN @ (+) SetToBag({<<frame, m.mid>>}) ELSE @,
                  !.last_send_time = now],
         msg |-> m]

\* Queue::pop_message(frame): the explicit pop of the head (the end when
\* newest_first)
QueuePopMessage(q, frame) ==
    IF Len(q.messages) = 0 THEN q
    ELSE LET m == IF q.cfg.newest_first THEN q.messages[Len(q.messages)]
                  ELSE Head(q.messages)
         IN  [q EXCEPT !.messages = EraseMessage(@, m.mid),
                       !.waiting_for_ack = EraseAckEntriesOf(@, m.mid)]

\* the entries of bag b under frame
EntriesOfFrame(b, frame) == {e \in BagToSet(b) : e[1] = frame}

\* Queue::pop_message_ack(frame, removed_msg): removes one message waiting
\* under frame.  Result: [q, ok, msg].
QueuePopMessageAck(q, frame) ==
    LET under == EntriesOfFrame(q.waiting_for_ack, frame)
    IN  IF under = {}
        THEN [q |-> q, ok |-> FALSE, msg |-> NoMessage]
        ELSE LET e == CHOOSE x \in under : \A y \in under : x[2] <= y[2]
                 m == CHOOSE x \in {q.messages[i] : i \in 1..Len(q.messages)} :
                          x.mid = e[2]
             IN  [q |-> [q EXCEPT
                           !.messages = EraseMessage(@, e[2]),
                           !.waiting_for_ack = EraseAckEntriesOf(@, e[2])],
                  ok |-> TRUE, msg |-> m]

\* a message is older than the queue's TTL
Expired(q, m, now) == m.time + q.cfg.ttl < now

\* (variant: the ACK entries of the expired messages are left behind)
QueueExpireKeepsAcks(q, now) ==
    [q |-> [q EXCEPT
              !.messages = SelectSeq(@, LAMBDA m : ~Expired(q, m, now))],
     msgs |-> SelectSeq(q.messages, LAMBDA m : Expired(q, m, now))]

\* Queue::expire: removes every message older than TTL.  Result: [q, msgs].
QueueExpire(q, now) ==
    LET gone == SelectSeq(q.messages, LAMBDA m : Expired(q, m, now))
        goneMids == {gone[i].mid : i \in 1..Len(gone)}
        keep == {e \in BagToSet(q.waiting_for_ack) : e[2] \notin goneMids}
    IN  [q |-> [q EXCEPT
                  !.messages = SelectSeq(@, LAMBDA m : ~Expired(q, m, now)),
                  !.waiting_for_ack = [e \in keep |-> q.waiting_for_ack[e]]],
         msgs |-> gone]

\* Queue::clear_ack_queue
clear_ack_queue(q) == [q EXCEPT !.waiting_for_ack = EmptyBag]

\* Queue::priority_values: whether the queue has something to give to
\* request [size] at time now (not empty, not in blackout, next message
\* fits), and then its priority base * (1 + age / time constant), kept as the
\* fraction <<numerator, denominator>>, and its last_send_time.
priority_values(q, request, now) ==
    LET m == next_message_it(q)
    IN  [ok |-> /\ FreePositions(q) # {}
                /\ ~(now - q.last_send_time < q.cfg.blackout_time)
                /\ m.size <= request.size,
         priority |->
             <<q.cfg.priority_base
                   * (q.cfg.priority_time_constant + (now - newest_msg_time(q))),
               q.cfg.priority_time_constant>>,
         last_send_time |-> q.last_send_time]

\* comparison of two priorities (fractions with positive denominators)
PriorityGreater(a, b) == a[1] * b[2] > b[1] * a[2]
PriorityEqual(a, b) == a[1] * b[2] = b[1] * a[2]

(***************************************************************************)
(* QueueManager.  The manager's members are threaded through the operators *)
(* as a record M = [queues, waiting_for_ack, packet_ack, next_mid, rx, res]:*)
(* queues_ (key -> Queue), waiting_for_ack_ (a bag of <<frame, key>>, the   *)
(* multimap frame -> Queue* ), packet_ack_, and, for observation, the       *)
(* receive callbacks made (rx) and the outcome of the last push (res).      *)
(***************************************************************************)
ON_DEMAND_SKEW == 1

NoKey == <<"none", 0>>

\* the data of a queued message: a DCCL frame carries the DCCL head, a CCL
\* frame starts with the CCL id of its queue
MsgData(key, msg) ==
    IF key[1] = "dccl"
    THEN <<DCCL_CCL_HEADER, key[2], 0, OurModemId, msg.dest, 0, 0>>
             \o [i \in 1..(msg.size - DCCL_NUM_HEADER_BYTES) |-> msg.mid]
    ELSE <<key[2]>> \o [i \in 1..(msg.size - 1) |-> msg.mid]

\* the ModemMessage of a queued message, as stitch and receive read it
AsModemMessage(key, msg) == [data |-> MsgData(key, msg), dest |-> msg.dest]

\* std::map<QueueKey, Queue> iterates in key order: type (dccl before ccl),
\* then id
KeyLess(a, b) ==
    \/ a[1] = "dccl" /\ b[1] = "ccl"
    \/ a[1] = b[1] /\ a[2] < b[2]

RECURSIVE SortedKeys(_)
SortedKeys(S) ==
    IF S = {} THEN <<>>
    ELSE LET k == CHOOSE x \in S : \A y \in S \ {x} : KeyLess(x, y)
         IN  <<k>> \o SortedKeys(S \ {k})

\* QueueManager::push_message(key, new_message)
\* (variant: a message for ourselves is queued like any other)
push_message_no_loopback(M, key, new_message, now) ==
    IF key \in DOMAIN M.queues
    THEN LET r == QueuePush(M.queues[key], new_message, now)
         IN  [M EXCEPT !.queues[key] = r.q,
                       !.res = IF r.ok THEN "pushed" ELSE "queue_full"]
    ELSE [M EXCEPT !.res = "no_queue"]

push_message(M, key, new_message, now) ==
    IF new_message.dest = OurModemId
    THEN [M EXCEPT
            !.rx = @ \o receive_incoming_modem_data(
                            DOMAIN M.queues, AsModemMessage(key, new_message)),
            !.res = "loopback"]
    ELSE IF key \in DOMAIN M.queues
    THEN LET r == QueuePush(M.queues[key], new_message, now)
         IN  [M EXCEPT !.queues[key] = r.q,
                       !.res = IF r.ok THEN "pushed" ELSE "queue_full"]
    ELSE [M EXCEPT !.res = "no_queue"]

\* QueueManager::clear_packet
clear_packet(M) ==
    LET waiting == {e[2] : e \in BagToSet(M.waiting_for_ack)}
    IN  [M EXCEPT
            !.queues = [k \in DOMAIN M.queues |->
                           IF k \in waiting THEN clear_ack_queue(M.queues[k])
                           ELSE M.queues[k]],
            !.waiting_for_ack = EmptyBag,
            !.packet_ack = FALSE]

\* (variant: a newest message exactly ON_DEMAND_SKEW old counts as stale)
OnDemandDueAtSkew(oq, now) ==
    /\ oq.cfg.on_demand
    /\ (size(oq) = 0 \/ newest_msg_time(oq) + ON_DEMAND_SKEW <= now)

\* the on-demand test of find_next_sender
OnDemandDue(oq, now) ==
    /\ oq.cfg.on_demand
    /\ (size(oq) = 0 \/ newest_msg_time(oq) + ON_DEMAND_SKEW < now)

\* (variant: equal priorities are not decided by last_send_time)
BeatsWinnerNoTieBreak(k, pv, win, user_frame_num) ==
    /\ \/ win.key = NoKey
       \/ PriorityGreater(pv.priority, win.priority)
    /\ ~(k[1] = "ccl" /\ user_frame_num > 0)

\* (variant: a CCL queue may win at any user frame)
BeatsWinnerCclAnywhere(k, pv, win, user_frame_num) ==
    \/ win.key = NoKey
    \/ PriorityGreater(pv.priority, win.priority)
    \/ /\ PriorityEqual(pv.priority, win.priority)
       /\ pv.last_send_time < win.last_send_time

\* (variant: the first eligible queue stays the winner)
BeatsWinnerFirstStays(k, pv, win, user_frame_num) ==
    /\ win.key = NoKey
    /\ ~(k[1] = "ccl" /\ user_frame_num > 0)

\* the test of find_next_sender that makes queue k, with priority values pv,
\* the new winner over win = [key, priority, last_send_time]
BeatsWinner(k, pv, win, user_frame_num) ==
    /\ \/ win.key = NoKey
       \/ PriorityGreater(pv.priority, win.priority)
       \/ /\ PriorityEqual(pv.priority, win.priority)
          /\ pv.last_send_time < win.last_send_time
    /\ ~(k[1] = "ccl" /\ user_frame_num > 0)

\* the element of a set of one element: {e(x) : x \in {d}} is e of the
\* value of d, worked out once
The(S) == CHOOSE v \in S : TRUE

NoWinner == [key |-> NoKey, priority |-> <<0, 1>>, last_send_time |-> 0]

\* the loop of find_next_sender over queues_, od = [set, msg] the on-demand
\* callback (whether connected, the message it produces)
\* now is util::goby_time() when the operation of the manager was called;
\* M.elapsed is the time gone by since: each goby_time() of the contest reads
\* now + M.elapsed, and callback_ondemand takes od.takes.  M.visits keeps,
\* for each queue looked at, what the on-demand test saw and the clock of
\* the priority evaluation.
RECURSIVE Contest(_, _, _, _, _, _, _)
Contest(M, keys, request, user_frame_num, now, od, win) ==
    IF keys = <<>> THEN [M |-> M, win |-> win.key]
    ELSE LET k == Head(keys)
         IN  The({The({The({The({
                 Contest(M2, Tail(keys), request, user_frame_num, now, od,
                         win1) :
                 M2 \in {[M1 EXCEPT !.visits =
                            Append(@, [key |-> k,
                                       user_frame_num |-> user_frame_num,
                                       on_demand |-> M.queues[k].cfg.on_demand,
                                       size |-> size(M.queues[k]),
                                       newest |-> newest_msg_time(M.queues[k]),
                                       at |-> now + M.elapsed,
                                       upcall |-> upcall,
                                       size_at_priority |-> size(M1.queues[k]),
                                       at_priority |-> now + M1.elapsed])]},
                 win1 \in {IF pv.ok /\ BeatsWinner(k, pv, win, user_frame_num)
                           THEN [key |-> k, priority |-> pv.priority,
                                 last_send_time |-> pv.last_send_time]
                           ELSE win}}) :
                 pv \in {priority_values(M1.queues[k], request,
                                         now + M1.elapsed)}}) :
                 M1 \in {IF upcall
                         THEN push_message(
                                  [M EXCEPT !.next_mid = @ + 1,
                                            !.elapsed = @ + od.takes], k,
                                  [od.msg EXCEPT !.mid = M.next_mid],
                                  now + M.elapsed + od.takes)
                         ELSE M}}) :
                 upcall \in {OnDemandDue(M.queues[k], now + M.elapsed)
                                 /\ od.set}})

\* QueueManager::find_next_sender(message, user_frame_num): [M, win]
find_next_sender(M, request, user_frame_num, now, od) ==
    Contest(M, SortedKeys(DOMAIN M.queues), request, user_frame_num, now, od,
            NoWinner)

\* unsigned arithmetic: a negative difference wraps to a value just below
\* 2^32.  The model checker's integers end at 2^31 - 1, so values from there
\* up stand for the top of the unsigned range (they exceed every size that
\* occurs, which is all the code compares them with).
UnsignedTop == 2147483647
Unsigned(n) == IF n < 0 THEN UnsignedTop + (n + 1) ELSE n

\* (variant: the message given is popped whatever the packet's ACK value)
PopsAlways(packet_ack, next_message) == TRUE

\* whether provide_outgoing_modem_data pops the message just given
PopsAfterGive(packet_ack, next_message) == ~packet_ack

\* (variant: the fill goes on after a CCL message)
KeepsFillingAfterCcl(request_size, winning_key) ==
    request_size > DCCL_NUM_HEADER_BYTES

\* (variant: the fill goes on while any room is left)
KeepsFillingWhileRoom(request_size, winning_key) == request_size > 0

\* whether the slot fill looks for another sender
KeepsFilling(request_size, winning_key) ==
    request_size > DCCL_NUM_HEADER_BYTES /\ winning_key[1] # "ccl"

\* the while loop of provide_outgoing_modem_data: [M, user_frames], a user
\* frame being [key, msg, popped]
RECURSIVE FillLoop(_, _, _, _, _, _)
FillLoop(M, request, winning_var, user_frames, now, od) ==
    The({
        LET next_message == given.msg
            packet_ack == IF M.packet_ack = FALSE THEN next_message.ack
                          ELSE M.packet_ack
            pops == PopsAfterGive(packet_ack, next_message)
        IN  The({
                IF KeepsFilling(request1.size, winning_var)
                THEN The({IF c.win = NoKey
                          THEN [M |-> c.M, user_frames |-> frames1]
                          ELSE FillLoop(c.M, request1, c.win, frames1, now,
                                        od) :
                          c \in {find_next_sender(M1, request1, Len(frames1),
                                                  now, od)}})
                ELSE [M |-> M1, user_frames |-> frames1] :
                M1 \in {IF pops
                        THEN [M EXCEPT
                                !.packet_ack = packet_ack,
                                !.queues[winning_var] =
                                    QueuePopMessage(given.q, request.frame)]
                        ELSE [M EXCEPT
                                !.packet_ack = packet_ack,
                                !.queues[winning_var] = given.q,
                                !.waiting_for_ack =
                                    @ (+) SetToBag({<<request.frame,
                                                      winning_var>>})]},
                request1 \in {[request EXCEPT
                                  !.size = Unsigned(request.size
                                                      - next_message.size)]},
                frames1 \in {Append(user_frames,
                                    [key |-> winning_var,
                                     msg |-> next_message,
                                     popped |-> pops])}}) :
        given \in {QueueGiveData(M.queues[winning_var], request.frame,
                                 now + M.elapsed)}})

\* (variant: only frame 0 starts a packet)
StartsPacketZeroOnly(frame) == frame = 0

\* the request frames for which provide_outgoing_modem_data starts a packet
StartsPacket(frame) == frame = 1 \/ frame = 0

\* QueueManager::provide_outgoing_modem_data(message_in, message_out):
\* [M, user_frames, out, ack, request_ack], out the data of message_out,
\* request_ack the ack of modified_message_in
provide_outgoing_modem_data(M, message_in, now, od) ==
    LET M0 == IF StartsPacket(message_in.frame) THEN clear_packet(M) ELSE M
        modified_message_in ==
            IF StartsPacket(message_in.frame) THEN message_in
            ELSE [message_in EXCEPT !.ack = M.packet_ack]
    IN  The({
            IF c.win = NoKey
            THEN [M |-> c.M, user_frames |-> <<>>, out |-> <<>>,
                  ack |-> c.M.packet_ack,
                  request_ack |-> modified_message_in.ack]
            ELSE The({[M |-> f.M, user_frames |-> f.user_frames,
                       request_ack |-> modified_message_in.ack,
                       out |-> stitch([i \in 1..Len(f.user_frames) |->
                                          AsModemMessage(
                                              f.user_frames[i].key,
                                              f.user_frames[i].msg)]),
                       ack |-> f.M.packet_ack] :
                      f \in {FillLoop(c.M, modified_message_in, c.win, <<>>,
                                      now, od)}}) :
            c \in {find_next_sender(M0, modified_message_in, 0, now, od)}})

\* (variant: the destination of the ACK is not looked at)
AckExpectedAnyDest(M, frame, dest) ==
    EntriesOfFrame(M.waiting_for_ack, frame) # {}

\* whether handle_modem_ack acts on an ACK for frame addressed to dest
AckExpected(M, frame, dest) ==
    dest = OurModemId /\ EntriesOfFrame(M.waiting_for_ack, frame) # {}

\* (variant: the loop ends at the first queue that has nothing to pop)
RECURSIVE AckLoopStopsOnFailure(_, _, _)
AckLoopStopsOnFailure(M, frame, acked) ==
    LET under == EntriesOfFrame(M.waiting_for_ack, frame)
    IN  IF under = {} THEN [M |-> M, acked |-> acked]
        ELSE LET it == CHOOSE x \in under :
                           \A y \in under \ {x} : KeyLess(x[2], y[2])
                 oq == it[2]
                 r == QueuePopMessageAck(M.queues[oq], frame)
                 M1 == [M EXCEPT
                          !.queues[oq] = r.q,
                          !.waiting_for_ack = @ (-) SetToBag({it})]
             IN  IF r.ok
                 THEN AckLoopStopsOnFailure(
                          M1, frame,
                          Append(acked, [key |-> oq, mid |-> r.msg.mid]))
                 ELSE [M |-> M, acked |-> acked]

\* (variant: only the first entry found under frame is handled)
AckLoopOnce(M, frame, acked) ==
    LET under == EntriesOfFrame(M.waiting_for_ack, frame)
        it == CHOOSE x \in under : \A y \in under \ {x} : KeyLess(x[2], y[2])
        r == QueuePopMessageAck(M.queues[it[2]], frame)
    IN  [M |-> [M EXCEPT !.queues[it[2]] = r.q,
                         !.waiting_for_ack = @ (-) SetToBag({it})],
         acked |-> IF r.ok THEN <<[key |-> it[2], mid |-> r.msg.mid]>>
                   ELSE <<>>]

\* the while loop of handle_modem_ack: [M, acked], acked the callback_ack
\* calls [key, mid] in order
RECURSIVE AckLoop(_, _, _)
AckLoop(M, frame, acked) ==
    LET under == EntriesOfFrame(M.waiting_for_ack, frame)
    IN  IF under = {} THEN [M |-> M, acked |-> acked]
        ELSE LET it == CHOOSE x \in under :
                           \A y \in under \ {x} : KeyLess(x[2], y[2])
                 oq == it[2]
                 r == QueuePopMessageAck(M.queues[oq], frame)
                 M1 == [M EXCEPT
                          !.queues[oq] = r.q,
                          !.waiting_for_ack = @ (-) SetToBag({it})]
             IN  AckLoop(M1, frame,
                         IF r.ok
                         THEN Append(acked, [key |-> oq, mid |-> r.msg.mid])
                         ELSE acked)

\* QueueManager::handle_modem_ack(message): [M, acked]
handle_modem_ack(M, frame, dest) ==
    IF AckExpected(M, frame, dest) THEN AckLoop(M, frame, <<>>)
    ELSE [M |-> M, acked |-> <<>>]

\* (variant: one callback for the expired messages of a queue)
ExpireCallbacksOnce(k, msgs) ==
    IF msgs = <<>> THEN <<>> ELSE <<[key |-> k, mid |-> msgs[1].mid]>>

\* the callback_expire calls of do_work for the messages msgs that queue k
\* expired
ExpireCallbacks(k, msgs) ==
    [i \in 1..Len(msgs) |-> [key |-> k, mid |-> msgs[i].mid]]

\* QueueManager::do_work: [M, expired], expired the callback_expire calls
RECURSIVE ExpireLoop(_, _, _, _)
ExpireLoop(M, keys, now, expired) ==
    IF keys = <<>> THEN [M |-> M, expired |-> expired]
    ELSE LET k == Head(keys)
             r == QueueExpire(M.queues[k], now)
         IN  ExpireLoop([M EXCEPT !.queues[k] = r.q], Tail(keys), now,
                        expired \o ExpireCallbacks(k, r.msgs))

do_work(M, now) == ExpireLoop(M, SortedKeys(DOMAIN M.queues), now, <<>>)

NO_AVAILABLE_DESTINATION == -1

\* (variant: the packet of before is not cleared)
request_next_destination_keeps_packet(M, size_, now, od) ==
    The({[M |-> c.M,
          dest |-> IF c.win # NoKey
                   THEN next_message_it(c.M.queues[c.win]).dest
                   ELSE NO_AVAILABLE_DESTINATION] :
         c \in {find_next_sender(M, [frame |-> 0, size |-> size_], 0, now,
                                 od)}})

\* QueueManager::request_next_destination(size): [M, dest]
request_next_destination(M, size_, now, od) ==
    The({[M |-> c.M,
          dest |-> IF c.win # NoKey
                   THEN next_message_it(c.M.queues[c.win]).dest
                   ELSE NO_AVAILABLE_DESTINATION] :
         c \in {find_next_sender(clear_packet(M),
                                 [frame |-> 0, size |-> size_], 0, now, od)}})

(***************************************************************************)
(* The queue manager as a state machine.                                    *)
(***************************************************************************)
VARIABLES
    queues_,            \* QueueManager::queues_
    waiting_for_ack_,   \* QueueManager::waiting_for_ack_
    packet_ack_,        \* QueueManager::packet_ack_
    now,                \* goby_time(), in seconds
    next_mid,           \* the next list node to be allocated
    remote_,            \* IridiumShoreDriver::remote_ (the on_call of each id)
    clients_,           \* IridiumShoreDriver::clients_
    connections_,       \* the RUDICS connections the server holds
    mo_connections_,    \* mo_sbd_server_->connections()
    mt_client_id,       \* static int i of create_sbd_mt_data_message
    halted,             \* the process has ended on a fault
    app_,               \* the ModemDriver application and where its thread is
    last                \* the last call made and what it returned / called back

vars == <<queues_, waiting_for_ack_, packet_ack_, now, next_mid,
          remote_, clients_, connections_, mo_connections_, mt_client_id,
          halted, app_, last>>

\* the members of the shore driver
shore == <<remote_, clients_, connections_, mo_connections_, mt_client_id,
           halted>>

\* the modem ids of the remote nodes
RemoteIds == {OurModemId + 1, OurModemId + 2}

\* RemoteNode::on_call when it holds no OnCallBase
NullOnCall ==
    [live |-> FALSE, last_tx_time |-> 0, last_rx_time |-> 0,
     bye_received |-> FALSE, bye_sent |-> FALSE, last_bytes_sent |-> 0]

\* IridiumShoreDriver(): no remote on a call, no client, no connection
\* a ModemTransmission as the application sees it: the data request of the
\* driver (request) or an answer to one (response); to is the data request it
\* is about
NoTransmission == [kind |-> "none", to |-> 0, during |-> 0]

\* ModemDriver::ModemDriver(): data_response_received_(false),
\* initiate_transmit_pending_(false); the thread is in Application::run and
\* nothing has been published or handled
NoApp ==
    [data_response_received_ |-> FALSE, data_response_ |-> NoTransmission,
     initiate_transmit_pending_ |-> FALSE, initiate_transmission_ |-> 0,
     stack |-> <<>>, msg |-> NoTransmission, start_time |-> 0,
     published |-> 0, arrived |-> 0, responses |-> 0, tx |-> 0,
     delivered |-> <<>>, done |-> <<>>]

AppConstructed == app_ = NoApp

ShoreConstructed ==
    /\ remote_ = [id \in RemoteIds |-> NullOnCall]
    /\ clients_ = {}
    /\ connections_ = {}
    /\ mo_connections_ = {}
    /\ mt_client_id = 0
    /\ halted = FALSE

\* Queue::Queue(cfg)
NewQueue(cfg) ==
    [cfg |-> cfg, messages |-> <<>>, waiting_for_ack |-> EmptyBag,
     last_send_time |-> 0]

\* QueueManager(cfgs): every queue added, nothing queued, packet_ack_ = 0
Constructed(cfgs) ==
    /\ queues_ = [k \in DOMAIN cfgs |-> NewQueue(cfgs[k])]
    /\ waiting_for_ack_ = EmptyBag
    /\ packet_ack_ = FALSE
    /\ now = 0
    /\ next_mid = 1
    /\ ShoreConstructed
    /\ AppConstructed

NoOnDemand == [set |-> FALSE, msg |-> NoMessage, takes |-> 0]

NoCall ==
    [op |-> "none", frame |-> 0, size |-> 0, dest |-> 0, key |-> NoKey,
     res |-> "",
     given |-> <<>>, out |-> <<>>, ack |-> FALSE, rx |-> <<>>,
     acked |-> <<>>, expired |-> <<>>, eligible |-> {}, in |-> <<>>,
     request_ack |-> FALSE, pending_before |-> 0, started |-> 0,
     visits |-> <<>>, gone |-> {}]

\* the members of the manager, as the operators thread them
Mgr == [queues |-> queues_, waiting_for_ack |-> waiting_for_ack_,
        packet_ack |-> packet_ack_, next_mid |-> next_mid, rx |-> <<>>,
        res |-> "", elapsed |-> 0, visits |-> <<>>]

Store(M) ==
    /\ queues_' = M.queues
    /\ waiting_for_ack_' = M.waiting_for_ack
    /\ packet_ack_' = M.packet_ack
    /\ next_mid' = M.next_mid
    /\ UNCHANGED shore
    /\ UNCHANGED app_

\* the queues that could send for request at user_frame_num, by
\* priority_values and the CCL rule
Eligible(M, request, user_frame_num, t) ==
    {k \in DOMAIN M.queues :
        /\ priority_values(M.queues[k], request, t).ok
        /\ ~(k[1] = "ccl" /\ user_frame_num > 0)}

\* the manager's state as provide_outgoing_modem_data and
\* request_next_destination see it once the packet is started
Started(M, frame) == IF StartsPacket(frame) THEN clear_packet(M) ELSE M

\* time passes, up to maxTime
Tick(maxTime) ==
    /\ now < maxTime
    /\ now' = now + 1
    /\ last' = [NoCall EXCEPT !.op = "tick"]
    /\ UNCHANGED <<queues_, waiting_for_ack_, packet_ack_, next_mid>>
    /\ UNCHANGED shore
    /\ UNCHANGED app_

\* the application calls push_message(key, new_message); sizes gives the
\* size of the messages of a key, dests their destinations
Push(keys, acks, dests, sizes, maxMsgs) ==
    \E key \in keys, ack \in acks :
      \E dest \in dests[key] :
        /\ next_mid <= maxMsgs
        /\ \E M \in {push_message(
                        [Mgr EXCEPT !.next_mid = @ + 1], key,
                        [mid |-> next_mid, dest |-> dest, ack |-> ack,
                         size |-> sizes[key], time |-> now], now)} :
              /\ Store(M)
              /\ last' = [NoCall EXCEPT !.op = "push", !.key = key,
                                        !.dest = dest, !.res = M.res,
                                        !.rx = M.rx]
        /\ UNCHANGED now

\* the driver's data request: provide_outgoing_modem_data
ProvideOutgoing(frames, sizes) ==
    \E frame \in frames, sz \in sizes :
      \E r \in {provide_outgoing_modem_data(
                    Mgr, [frame |-> frame, size |-> sz, ack |-> FALSE], now,
                    NoOnDemand)} :
        /\ BagCardinality(r.M.waiting_for_ack) <= MaxPending
        /\ Store(r.M)
        /\ last' = [NoCall EXCEPT
                      !.op = "provide_outgoing", !.frame = frame,
                      !.size = sz, !.given = r.user_frames, !.out = r.out,
                      !.ack = r.ack, !.rx = r.M.rx,
                      !.request_ack = r.request_ack,
                      !.pending_before = BagCardinality(waiting_for_ack_),
                      !.eligible =
                          Eligible(Started(Mgr, frame),
                                   [frame |-> frame, size |-> sz], 0, now)]
        /\ UNCHANGED now

\* the messages of queue q that wait for the ACK of frame
WaitingUnder(q, frame) ==
    {e[2] : e \in EntriesOfFrame(q.waiting_for_ack, frame)}

\* the <<frame, key>> of the messages among msgs ([key, mid]) that wait for
\* an ACK
WaitingAmong(msgs) ==
    UNION {{<<e[1], k>> : e \in {x \in BagToSet(queues_[k].waiting_for_ack) :
                                    \E i \in 1..Len(msgs) :
                                        msgs[i] = [key |-> k, mid |-> x[2]]}}
             : k \in DOMAIN queues_}

\* the driver reports an ACK: handle_modem_ack
HandleAck(frames, dests) ==
    \E frame \in frames, dest \in dests :
      \E r \in {handle_modem_ack(Mgr, frame, dest)} :
        /\ Store(r.M)
        /\ last' = [NoCall EXCEPT !.op = "handle_ack", !.frame = frame,
                                  !.dest = dest, !.acked = r.acked,
                                  !.gone = IF last.op = "do_work"
                                           THEN {g \in last.gone :
                                                    g[1] = frame}
                                           ELSE {}]
        /\ UNCHANGED now

\* the periodic do_work
DoWork ==
    \E r \in {do_work(Mgr, now)} :
        /\ Store(r.M)
        /\ last' = [NoCall EXCEPT !.op = "do_work", !.expired = r.expired,
                                  !.gone = WaitingAmong(r.expired)]
        /\ UNCHANGED now

\* the MAC asks for the next destination: request_next_destination
RequestNextDestination ==
    \E r \in {request_next_destination(Mgr, UnsignedTop, now, NoOnDemand)} :
        /\ Store(r.M)
        /\ last' = [NoCall EXCEPT !.op = "request_next_destination",
                                  !.dest = r.dest, !.rx = r.M.rx,
                                  !.pending_before =
                                      BagCardinality(waiting_for_ack_)]
        /\ UNCHANGED now

(***************************************************************************)
(* SpecAck: two DCCL queues, messages with and without ACK required.        *)
(* QA is a FIFO without size limit, QB gives its newest message first and   *)
(* holds at most one message.                                              *)
(***************************************************************************)
QA == QueueKey("dccl", 1)
QB == QueueKey("dccl", 2)
QC == QueueKey("ccl", 3)
OtherModemId == OurModemId + 1

AckConfigs ==
    (QA :> [type |-> "dccl", id |-> 1, priority_base |-> 1,
            priority_time_constant |-> 1, ttl |-> 0, newest_first |-> FALSE,
            max_queue |-> 0, blackout_time |-> 0, on_demand |-> FALSE])
    @@ (QB :> [type |-> "dccl", id |-> 2, priority_base |-> 2,
               priority_time_constant |-> 1, ttl |-> 0, newest_first |-> TRUE,
               max_queue |-> 1, blackout_time |-> 0, on_demand |-> FALSE])

AckDests == (QA :> {OtherModemId}) @@ (QB :> {OtherModemId})
AckSizes == (QA :> 8) @@ (QB :> 10)
AckFrames == {0, 2}
AckReqSizes == {18}

InitAck == Constructed(AckConfigs) /\ last = NoCall

NextAck ==
    \/ Tick(MaxTimeAck)
    \/ Push({QA, QB}, BOOLEAN, AckDests, AckSizes, MaxMsgsAck)
    \/ ProvideOutgoing(AckFrames, AckReqSizes)
    \/ HandleAck(AckFrames, {OurModemId, OtherModemId})
    \/ DoWork
    \/ RequestNextDestination

SpecAck == InitAck /\ [][NextAck]_vars

(***************************************************************************)
(* SpecPkt: the packets of the two queues of SpecAck, asked for under the  *)
(* frames that start a packet and under a later frame.                     *)
(***************************************************************************)
PktFrames == {0, 1, 2}

NextPkt ==
    \/ Tick(MaxTimeAck)
    \/ Push({QA, QB}, BOOLEAN, AckDests, AckSizes, MaxMsgsAck)
    \/ ProvideOutgoing(PktFrames, AckReqSizes)
    \/ HandleAck(PktFrames, {OurModemId, OtherModemId})
    \/ DoWork
    \/ RequestNextDestination

SpecPkt == InitAck /\ [][NextPkt]_vars

(***************************************************************************)
(* SpecDemand: a queue filled on demand next to a queue the application    *)
(* pushes to; callback_ondemand is connected and may take time.            *)
(***************************************************************************)
DemandConfigs ==
    (QA :> [type |-> "dccl", id |-> 1, priority_base |-> 1,
            priority_time_constant |-> 1, ttl |-> 0, newest_first |-> FALSE,
            max_queue |-> 0, blackout_time |-> 0, on_demand |-> FALSE])
    @@ (QB :> [type |-> "dccl", id |-> 2, priority_base |-> 1,
               priority_time_constant |-> 1, ttl |-> 0, newest_first |-> FALSE,
               max_queue |-> 0, blackout_time |-> 0, on_demand |-> TRUE])

DemandSizes == (QA :> 8) @@ (QB :> 10)
DemandReqSizes == {8, 18}
MaxMsgsDemand == 3
MaxTimeDemand == 3

\* the seconds callback_ondemand may take
DemandTakes == {0, 1}

\* provide_outgoing_modem_data with callback_ondemand connected; the clock
\* has moved on by what the upcalls took when it returns
ProvideOnDemand(frames, sizes) ==
    \E frame \in frames, sz \in sizes, takes \in DemandTakes :
      \E r \in {provide_outgoing_modem_data(
                    Mgr, [frame |-> frame, size |-> sz, ack |-> FALSE], now,
                    [set |-> TRUE, takes |-> takes,
                     msg |-> [NoMessage EXCEPT !.dest = OtherModemId,
                                               !.size = DemandSizes[QB]]])} :
        /\ r.M.next_mid <= MaxMsgsDemand + 1
        /\ now + r.M.elapsed <= MaxTimeDemand
        /\ Store(r.M)
        /\ now' = now + r.M.elapsed
        /\ last' = [NoCall EXCEPT
                      !.op = "provide_outgoing", !.frame = frame,
                      !.size = sz, !.given = r.user_frames, !.out = r.out,
                      !.ack = r.ack, !.started = now,
                      !.visits = r.M.visits]

InitDemand == Constructed(DemandConfigs) /\ last = NoCall

NextDemand ==
    \/ Tick(MaxTimeDemand)
    \/ Push({QA, QB}, {FALSE}, AckDests, DemandSizes, MaxMsgsDemand)
    \/ ProvideOnDemand({0}, DemandReqSizes)

SpecDemand == InitDemand /\ [][NextDemand]_vars

(***************************************************************************)
(* SpecPri: the priority contest between two DCCL queues and a CCL queue.  *)
(***************************************************************************)
PriConfigs ==
    (QA :> [type |-> "dccl", id |-> 1, priority_base |-> 1,
            priority_time_constant |-> 1, ttl |-> 1, newest_first |-> FALSE,
            max_queue |-> 0, blackout_time |-> 0, on_demand |-> FALSE])
    @@ (QB :> [type |-> "dccl", id |-> 2, priority_base |-> 2,
               priority_time_constant |-> 1, ttl |-> 1, newest_first |-> FALSE,
               max_queue |-> 0, blackout_time |-> 0, on_demand |-> FALSE])
    @@ (QC :> [type |-> "ccl", id |-> 3, priority_base |-> 2,
               priority_time_constant |-> 1, ttl |-> 1, newest_first |-> FALSE,
               max_queue |-> 0, blackout_time |-> 1, on_demand |-> FALSE])

PriDests == (QA :> {OtherModemId}) @@ (QB :> {BROADCAST_ID})
                @@ (QC :> {OtherModemId})
PriSizes == (QA :> 8) @@ (QB :> 10) @@ (QC :> 8)
PriFrames == {0}
PriReqSizes == {8, 18}

InitPri == Constructed(PriConfigs) /\ last = NoCall

NextPri ==
    \/ Tick(MaxTimePri)
    \/ Push({QA, QB, QC}, {FALSE}, PriDests, PriSizes, MaxMsgsPri)
    \/ ProvideOutgoing(PriFrames, PriReqSizes)
    \/ DoWork
    \/ RequestNextDestination

SpecPri == InitPri /\ [][NextPri]_vars

(***************************************************************************)
(* SpecWire: stitch applied to sequences of DCCL frames, and                *)
(* receive_incoming_modem_data applied to stitched packets and to other     *)
(* frames.  The manager has the queues of PriConfigs: (dccl, 1), (dccl, 2)  *)
(* and (ccl, 3).                                                            *)
(***************************************************************************)
WireIds == {1, 2, 5}
WireDests == {BROADCAST_ID, OurModemId}
WireFirstBytes == {3, 4, DCCL_CCL_HEADER}

\* a DCCL frame of queue id for dest with a body of n bytes; the frames of
\* queue 2 come with their flags set
WireFrame(id, dest, n) ==
    [data |-> <<DCCL_CCL_HEADER, id, 0, OtherModemId, dest,
                FlagByte(id = 2), FlagByte(id = 2)>>
                  \o [i \in 1..n |-> 4 * id],
     dest |-> dest]

WireFrames ==
    {WireFrame(id, dest, n) : id \in WireIds, dest \in WireDests,
                              n \in 0..MaxBody}
        \cup {WireFrame(1, OurModemId, LongBody)}

\* the sequences of up to MaxUserFrames frames
WireInputs ==
    UNION {[1..n -> WireFrames] : n \in 1..MaxUserFrames}

\* the frames of n bytes that start with byte c
WireRawFrames ==
    {<<c>> \o [i \in 1..(n - 1) |-> 0] :
        c \in WireFirstBytes,
        n \in {1, DCCL_NUM_HEADER_BYTES - 1, DCCL_NUM_HEADER_BYTES,
               DCCL_NUM_HEADER_BYTES + MaxBody}}

\* stitch(in) for the sequence of frames at hand
Stitch ==
    /\ last.op = "frames"
    /\ last' = [last EXCEPT !.op = "stitch", !.out = stitch(last.in)]
    /\ UNCHANGED <<queues_, waiting_for_ack_, packet_ack_, now, next_mid>>
    /\ UNCHANGED shore
    /\ UNCHANGED app_

\* the packet just stitched arrives, addressed to dest
ReceiveStitched ==
    /\ last.op = "stitch"
    /\ \E dest \in {OurModemId, OtherModemId} :
          last' = [last EXCEPT
                     !.op = "receive", !.dest = dest,
                     !.rx = receive_incoming_modem_data(
                                DOMAIN queues_,
                                [data |-> last.out, dest |-> dest])]
    /\ UNCHANGED <<queues_, waiting_for_ack_, packet_ack_, now, next_mid>>
    /\ UNCHANGED shore
    /\ UNCHANGED app_

\* the frame at hand arrives, addressed to dest
ReceiveFrame ==
    /\ last.op = "frame"
    /\ \E dest \in {OurModemId, OtherModemId} :
          last' = [last EXCEPT
                     !.op = "receive", !.dest = dest,
                     !.rx = receive_incoming_modem_data(
                                DOMAIN queues_,
                                [data |-> last.out, dest |-> dest])]
    /\ UNCHANGED <<queues_, waiting_for_ack_, packet_ack_, now, next_mid>>
    /\ UNCHANGED shore
    /\ UNCHANGED app_

\* the manager is constructed; at hand is a sequence of frames to stitch or
\* a frame to receive
InitWire ==
    /\ Constructed(PriConfigs)
    /\ \/ \E in \in WireInputs :
             last = [NoCall EXCEPT !.op = "frames", !.in = in]
       \/ \E data \in WireRawFrames :
             last = [NoCall EXCEPT !.op = "frame", !.out = data]

NextWire == Stitch \/ ReceiveStitched \/ ReceiveFrame

SpecWire == InitWire /\ [][NextWire]_vars

(***************************************************************************)
(* SpecReg: queues are added to a manager constructed without any, and      *)
(* messages are pushed under keys that may or may not have a queue.         *)
(***************************************************************************)
\* the configuration of a queue of the given kind and id
RegCfg(type, id) ==
    [type |-> type, id |-> id, priority_base |-> 1,
     priority_time_constant |-> 1, ttl |-> 1, newest_first |-> FALSE,
     max_queue |-> 1, blackout_time |-> 0, on_demand |-> FALSE]

RegConfigs ==
    {RegCfg("dccl", 1), RegCfg("dccl", MAX_ID), RegCfg("dccl", MAX_ID + 1),
     RegCfg("ccl", 3), RegCfg("ccl", MAX_ID + 1)}

RegPushKeys == {QueueKey("dccl", 1), QueueKey("ccl", 3)}
RegDests == [k \in RegPushKeys |-> {OurModemId, OtherModemId}]
RegSizes == [k \in RegPushKeys |-> DCCL_NUM_HEADER_BYTES + 1]

\* (variant: the id of a DCCL queue is not checked)
add_queue_any_id(M, cfg) ==
    LET k == QueueKey(cfg.type, cfg.id)
    IN  IF k \in DOMAIN M.queues
        THEN [M EXCEPT !.res = "DuplicateKey"]
        ELSE [M EXCEPT !.queues = @ @@ (k :> NewQueue(cfg)),
                       !.res = "added"]

\* QueueManager::add_queue(cfg); res tells the exception thrown, if any
add_queue(M, cfg) ==
    LET k == QueueKey(cfg.type, cfg.id)
    IN  IF k \in DOMAIN M.queues
        THEN [M EXCEPT !.res = "DuplicateKey"]
        ELSE IF cfg.id > MAX_ID /\ cfg.type # "ccl"
        THEN [M EXCEPT !.res = "IdTooLarge"]
        ELSE [M EXCEPT !.queues = @ @@ (k :> NewQueue(cfg)),
                       !.res = "added"]

\* the application adds a queue
AddQueue ==
    \E cfg \in RegConfigs :
      \E M \in {add_queue(Mgr, cfg)} :
        /\ Store(M)
        /\ last' = [NoCall EXCEPT !.op = "add_queue",
                                  !.key = QueueKey(cfg.type, cfg.id),
                                  !.res = M.res]
        /\ UNCHANGED now

InitReg == Constructed(<<>>) /\ last = NoCall

NextReg ==
    \/ AddQueue
    \/ Push(RegPushKeys, BOOLEAN, RegDests, RegSizes, MaxMsgsReg)

SpecReg == InitReg /\ [][NextReg]_vars

(***************************************************************************)
(* The Iridium shore driver: RUDICS calls and SBD.  A line is a sequence   *)
(* of bytes, time is in whole seconds.                                      *)
(***************************************************************************)
\* DriverConfig: seconds without transmission before "bye" is sent, seconds
\* without traffic before the call is hung up
handshake_hangup_seconds == 1
hangup_seconds_after_empty == 2

\* target_bit_rate / BITS_IN_BYTE: the bytes sent per second on a call
TargetBytesPerSecond == 10

\* the byte that ends a RUDICS line, the byte that starts a packet
CR == 13
SOF == 1

\* "goby\r", "\0goby\r" and "bye\r"
GobyLine == <<103, 111, 98, 121, CR>>
NullGobyLine == <<0>> \o GobyLine
ByeLine == <<98, 121, 101, CR>>

\* std::string == const char*: the characters up to the first null byte of
\* the literal are compared
CString(literal) ==
    IF \E i \in 1..Len(literal) : literal[i] = 0
    THEN SubSeq(literal, 1,
                (CHOOSE i \in 1..Len(literal) :
                    /\ literal[i] = 0
                    /\ \A j \in 1..(i - 1) : literal[j] # 0) - 1)
    ELSE literal

\* the test of rudics_line for the line that opens a call
IsGreeting(data) == data = CString(GobyLine) \/ data = CString(NullGobyLine)

\* the rates of a transmission of the Iridium drivers
RATE_RUDICS == 1
RATE_SBD == 0

\* protobuf::ModemTransmission::TransmissionType
TransmissionType == [DATA |-> 1, ACK |-> 2]

\* a protobuf::ModemTransmission; frame and acked_frame are its repeated
\* fields
ModemTransmission(src, dest, rate, type) ==
    [src |-> src, dest |-> dest, rate |-> rate, type |-> type,
     ack_requested |-> FALSE, frame_start |-> 0, frame |-> <<>>,
     acked_frame |-> <<>>]

\* serialize_iridium_modem_message: the header, one byte a field, holds the
\* first acked frame only (0 for none); the first frame follows it
serialize_iridium_modem_message(in) ==
    <<in.src, in.dest, in.rate, in.type,
      IF in.ack_requested THEN 1 ELSE 0, in.frame_start,
      IF Len(in.acked_frame) > 0 THEN in.acked_frame[1] + 1 ELSE 0>>
        \o (IF Len(in.frame) > 0 THEN in.frame[1] ELSE <<>>)

\* serialize_rudics_packet: start of frame, the bytes, end of line
serialize_rudics_packet(bytes) == <<SOF>> \o bytes \o <<CR>>

\* the packet that carries a transmission
RudicsPacket(msg) ==
    serialize_rudics_packet(serialize_iridium_modem_message(msg))

\* parse_rudics_packet accepts the line (it throws RudicsPacketException
\* for any other)
RudicsPacketOk(data) ==
    /\ Len(data) >= Len(RudicsPacket(ModemTransmission(0, 0, 0, 0)))
    /\ data[1] = SOF
    /\ data[Len(data)] = CR

\* parse_rudics_packet, parse_iridium_modem_message
parse_iridium_modem_message(data) ==
    [src |-> data[2], dest |-> data[3], rate |-> data[4], type |-> data[5],
     ack_requested |-> data[6] = 1, frame_start |-> data[7],
     frame |-> IF Len(data) > Len(RudicsPacket(ModemTransmission(0, 0, 0, 0)))
               THEN <<SubSeq(data, 9, Len(data) - 1)>>
               ELSE <<>>,
     acked_frame |-> IF data[8] > 0 THEN <<data[8] - 1>> ELSE <<>>]

\* OnCallBase(): last_tx_time_ is the time of construction
OnCallBase(t) ==
    [live |-> TRUE, last_tx_time |-> t, last_rx_time |-> 0,
     bye_received |-> FALSE, bye_sent |-> FALSE, last_bytes_sent |-> 0]

\* OnCallBase::last_rx_tx_time
last_rx_tx_time(oc) ==
    IF oc.last_tx_time > oc.last_rx_time THEN oc.last_tx_time
    ELSE oc.last_rx_time

\* the driver's members as the operators thread them.  ub is what the build
\* does on a write through a null on_call ("halt": the process ends, "go":
\* it goes on), mt is how the next SBD-MT connection fares.  The rest is
\* what the call did: the bytes it wrote (connection, bytes), the
\* transmissions it passed to send, the ids it set last_tx_time for, set
\* bye_sent for and hung up, the connections it closed, the connections
\* whose failure counter it incremented, the transmissions it signalled as
\* received, the connections it made to the MT gateway and the messages it
\* wrote to it (with the calls of send_sbd_mt), and the SBD-MO connections
\* it processed
Drv == [remote |-> remote_, clients |-> clients_,
        connections |-> connections_, mo_connections |-> mo_connections_,
        mt_client_id |-> mt_client_id, halted |-> halted,
        ub |-> "halt", mt |-> "ok",
        wrote |-> <<>>, tx |-> <<>>, sent |-> {},
        bye_set |-> {}, hungup |-> {}, closed |-> {}, failures |-> <<>>,
        rx |-> <<>>, mt_calls |-> 0, mt_connects |-> 0, mt_wrote |-> <<>>,
        mo_processed |-> <<>>]

DrvIn(ub, mt) == [Drv EXCEPT !.ub = ub, !.mt = mt]

\* clients_.left.find(id) / clients_.right.find(connection)
LeftFind(clients, id) == {p \in clients : p[1] = id}
RightFind(clients, c) == {p \in clients : p[2] = c}

\* clients_.left.insert(make_pair(id, c)): a bimap takes the relation only
\* if neither side is in it yet
BimapInsert(clients, id, c) ==
    IF LeftFind(clients, id) = {} /\ RightFind(clients, c) = {}
    THEN clients \cup {<<id, c>>}
    ELSE clients

\* IridiumShoreDriver::rudics_send(data, id)
rudics_send(D, data, id) ==
    IF LeftFind(D.clients, id) # {}
    THEN LET p == CHOOSE p \in LeftFind(D.clients, id) : TRUE
         IN  [D EXCEPT !.wrote = Append(@, <<p[2], data>>)]
    ELSE D

\* the bytes of n, most significant first: (n >> 8) & 0xff, n & 0xff
BigEndian2(n) == <<(n \div 256) % 256, n % 256>>
BigEndian4(n) ==
    <<(n \div (256 * 256 * 256)) % 256, (n \div (256 * 256)) % 256,
      (n \div 256) % 256, n % 256>>

\* header_bytes[pos] = byte, pos counted from 0
SetByte(s, pos, byte) == [s EXCEPT ![pos + 1] = byte]

\* the sizes and element ids of create_sbd_mt_data_message
IEI_SIZE == 3
HEADER_SIZE == 21
IEI_MT_HEADER == 65
IEI_MT_PAYLOAD == 66
DISP_FLAG_FLUSH_MT_QUEUE == 1
ImeiSize == 15

\* create_sbd_mt_data_message: the header of client_id and imei
MtHeaderBytes(client_id, imei) ==
    LET zeros == [k \in 1..(IEI_SIZE + HEADER_SIZE) |-> 0]
        h1 == SetByte(zeros, 0, IEI_MT_HEADER % 256)
        h2 == SetByte(SetByte(h1, 1, BigEndian2(HEADER_SIZE)[1]),
                      2, BigEndian2(HEADER_SIZE)[2])
        h3 == SetByte(SetByte(SetByte(SetByte(h2,
                      3, BigEndian4(client_id)[1]),
                      4, BigEndian4(client_id)[2]),
                      5, BigEndian4(client_id)[3]),
                      6, BigEndian4(client_id)[4])
        h4 == Replace(h3, 7, ImeiSize, imei)
    IN  SetByte(SetByte(h4, 7 + ImeiSize,
                        BigEndian2(DISP_FLAG_FLUSH_MT_QUEUE)[1]),
                7 + ImeiSize + 1, BigEndian2(DISP_FLAG_FLUSH_MT_QUEUE)[2])

\* create_sbd_mt_data_message: the payload element of bytes
MtPayloadBytes(bytes) ==
    LET zeros == [k \in 1..(IEI_SIZE + Len(bytes)) |-> 0]
        p1 == SetByte(SetByte(SetByte(zeros, 0, IEI_MT_PAYLOAD),
                              1, BigEndian2(Len(bytes))[1]),
                      2, BigEndian2(Len(bytes))[2])
    IN  Replace(p1, 3, Len(bytes), bytes)

\* (variant: the overall length leaves the element header of the payload
\* out)
create_sbd_mt_data_message_short_length(bytes, imei, client_id) ==
    LET header_bytes == MtHeaderBytes(client_id, imei)
        payload_bytes == MtPayloadBytes(bytes)
        overall_length == Len(header_bytes) + Len(bytes)
    IN  <<1>> \o BigEndian2(overall_length) \o header_bytes \o payload_bytes

\* IridiumShoreDriver::create_sbd_mt_data_message(bytes, imei), for the value
\* client_id of its counter
create_sbd_mt_data_message(bytes, imei, client_id) ==
    LET header_bytes == MtHeaderBytes(client_id, imei)
        payload_bytes == MtPayloadBytes(bytes)
        overall_length == Len(header_bytes) + Len(payload_bytes)
    IN  <<1>> \o BigEndian2(overall_length) \o header_bytes \o payload_bytes

\* the IMEI "300234010123450"
Imei == <<51, 48, 48, 50, 51, 52, 48, 49, 48, 49, 50, 51, 52, 53, 48>>

\* DriverConfig modem_id_to_imei, as startup copies it
modem_id_to_imei_ == [id \in {OurModemId + 1} |-> Imei]

\* what a build does on a write through a null pointer: the process ends,
\* or it goes on
Builds == {"halt", "go"}

\* how a connection to the MT gateway can fare: all goes well, the address
\* does not resolve, no endpoint connects, the write fails, no confirmation
\* comes within the timeout
MtOutcomes == {"ok", "resolve", "connect", "write", "timeout"}

\* (variant: a failure of the MT connection ends the process)
send_sbd_mt_throws(D, bytes, imei) ==
    IF D.mt \in {"resolve", "connect", "write"}
    THEN [D EXCEPT !.mt_calls = @ + 1, !.halted = TRUE]
    ELSE [D EXCEPT
            !.mt_calls = @ + 1,
            !.mt_connects = @ + 1,
            !.mt_client_id = @ + 1,
            !.mt_wrote =
                Append(@, create_sbd_mt_data_message(bytes, imei,
                                                     D.mt_client_id))]

\* IridiumShoreDriver::send_sbd_mt(bytes, imei): every exception is caught
send_sbd_mt(D, bytes, imei) ==
    IF D.mt = "resolve" THEN [D EXCEPT !.mt_calls = @ + 1]
    ELSE IF D.mt = "connect"
    THEN [D EXCEPT !.mt_calls = @ + 1, !.mt_connects = @ + 1]
    ELSE IF D.mt = "write"
    THEN [D EXCEPT !.mt_calls = @ + 1, !.mt_connects = @ + 1,
                   !.mt_client_id = @ + 1]
    ELSE [D EXCEPT
            !.mt_calls = @ + 1,
            !.mt_connects = @ + 1,
            !.mt_client_id = @ + 1,
            !.mt_wrote =
                Append(@, create_sbd_mt_data_message(bytes, imei,
                                                     D.mt_client_id))]

\* (variant: a transmission at the SBD rate goes to the gateway whether or
\* not its destination has an IMEI)
HasImeiAlways(dest) == TRUE

\* modem_id_to_imei_.count(dest)
HasImei(dest) == dest \in DOMAIN modem_id_to_imei_

\* IridiumShoreDriver::send(msg).  On the RUDICS branch the times are
\* written through remote.on_call, which is null when the remote is not on
\* a call
send(D, msg, t) ==
    The({
        IF msg.rate = RATE_RUDICS \/ D.remote[msg.dest].live
        THEN IF D.remote[msg.dest].live
             THEN [rudics_send(D0, rudics_packet, msg.dest) EXCEPT
                     !.remote[msg.dest].last_tx_time = t,
                     !.remote[msg.dest].last_bytes_sent = Len(rudics_packet),
                     !.sent = @ \cup {msg.dest}]
             ELSE [rudics_send(D0, rudics_packet, msg.dest) EXCEPT
                     !.halted = (D.ub = "halt")]
        ELSE IF msg.rate = RATE_SBD
        THEN IF HasImei(msg.dest)
             THEN send_sbd_mt(D0, rudics_packet,
                              IF msg.dest \in DOMAIN modem_id_to_imei_
                              THEN modem_id_to_imei_[msg.dest]
                              ELSE <<>>)
             ELSE D0
        ELSE D0 :
        D0 \in {[D EXCEPT !.tx = Append(@, msg)]},
        rudics_packet \in {RudicsPacket(msg)}})

\* (variant: a transmission goes out whether or not it has data)
process_transmission_keepalive(D, msg, has_data, t) ==
    send(D, IF has_data THEN [msg EXCEPT !.frame = <<<<7>>>>] ELSE msg, t)

\* IridiumShoreDriver::process_transmission(msg): has_data tells whether
\* signal_data_request filled a frame; a transmission without data is not
\* sent.  (next_frame_, the frame_start of the transmission, counts the
\* frames sent and is left at 0.)
process_transmission(D, msg, has_data, t) ==
    IF has_data THEN send(D, [msg EXCEPT !.frame = <<<<7>>>>], t) ELSE D

\* rudics_mac_msg_ as startup sets it, with the dest do_work gives it
rudics_mac_msg_(dest) ==
    ModemTransmission(OurModemId, dest, RATE_RUDICS, TransmissionType.DATA)

\* the acked_frame of the ACK for msg: frame_start .. frame_start +
\* frame_size - 1
AckedFrames(msg) == [k \in 1..Len(msg.frame) |-> msg.frame_start + k - 1]

\* the test of receive for the automatic ACK
WantsAck(msg) ==
    /\ msg.type = TransmissionType.DATA
    /\ msg.ack_requested
    /\ msg.dest = OurModemId

\* IridiumShoreDriver::receive(msg): the ACK for a data transmission that
\* asks for one and is addressed to us, then signal_receive
receive(D, msg, t) ==
    LET ack == [ModemTransmission(msg.dest, msg.src, msg.rate,
                                  TransmissionType.ACK)
                   EXCEPT !.acked_frame = AckedFrames(msg)]
    IN  The({IF D1.halted THEN D1 ELSE [D1 EXCEPT !.rx = Append(@, msg)] :
               D1 \in {IF WantsAck(msg)
                        THEN The({send(D, a, t) : a \in {ack}})
                        ELSE D}})

\* IridiumShoreDriver::rudics_disconnect(connection)
rudics_disconnect(D, c) ==
    IF RightFind(D.clients, c) # {}
    THEN LET p == CHOOSE p \in RightFind(D.clients, c) : TRUE
         IN  [D EXCEPT !.remote[p[1]] = NullOnCall,
                       !.clients = @ \ {p}]
    ELSE D

\* (variant: no line puts a remote on a call)
NewCallOnLineNever(D, data, c) == FALSE

\* whether the line puts a remote on a call: only a packet does, by its src
NewCallOnLine(D, data, c) ==
    /\ ~IsGreeting(data) /\ data # ByeLine /\ RudicsPacketOk(data)
    /\ LeftFind(D.clients, parse_iridium_modem_message(data).src) = {}

\* (variant: a line that is no packet is handled as an empty transmission
\* of the first remote)
BadPacketReceived(D, data, c, t) ==
    receive([D EXCEPT !.failures = Append(@, c)],
            ModemTransmission(OurModemId + 1, OurModemId, RATE_RUDICS,
                              TransmissionType.DATA), t)

\* the catch clause of rudics_line: connection->add_packet_failure()
BadPacket(D, data, c, t) == [D EXCEPT !.failures = Append(@, c)]

\* IridiumShoreDriver::rudics_line(data, connection)
rudics_line(D, data, c, t) ==
    IF IsGreeting(data) THEN D
    ELSE IF data = ByeLine
    THEN IF RightFind(D.clients, c) # {}
         THEN LET p == CHOOSE p \in RightFind(D.clients, c) : TRUE
              IN  [D EXCEPT !.remote[p[1]].bye_received = TRUE]
         ELSE D
    ELSE IF ~RudicsPacketOk(data) THEN BadPacket(D, data, c, t)
    ELSE LET modem_msg == parse_iridium_modem_message(data)
             D1 == IF NewCallOnLine(D, data, c)
                   THEN [D EXCEPT
                           !.clients = BimapInsert(@, modem_msg.src, c),
                           !.remote[modem_msg.src] = OnCallBase(t)]
                   ELSE D
             D2 == [D1 EXCEPT !.remote[modem_msg.src].last_rx_time = t]
         IN  receive(D2, modem_msg, t)

\* now > last_tx_time + last_bytes_sent / (target_bit_rate / BITS_IN_BYTE)
SendDue(oc, t) ==
    t * TargetBytesPerSecond
        > oc.last_tx_time * TargetBytesPerSecond + oc.last_bytes_sent

\* the test of do_work for sending "bye"
ByeDue(oc, t) ==
    ~oc.bye_sent /\ t > oc.last_tx_time + handshake_hangup_seconds

\* the test of do_work for hanging up
HangupDue(oc, t) ==
    \/ oc.bye_received /\ oc.bye_sent
    \/ t > last_rx_tx_time(oc) + hangup_seconds_after_empty

\* the body of the loop of do_work for the remote id
DoWorkRemote(D, id, has_data, t) ==
    IF ~D.remote[id].live THEN D
    ELSE The({
             IF HangupDue(D2.remote[id], t)
             THEN [D2 EXCEPT
                     !.closed = @ \cup {p[2] : p \in LeftFind(D2.clients, id)},
                     !.remote[id] = NullOnCall,
                     !.hungup = @ \cup {id}]
             ELSE D2 :
             D2 \in {IF ByeDue(D1.remote[id], t)
                      THEN [rudics_send(D1, ByeLine, id) EXCEPT
                               !.remote[id].bye_sent = TRUE,
                               !.bye_set = @ \cup {id}]
                      ELSE D1 :
                      D1 \in {IF SendDue(D.remote[id], t)
                                  /\ ~D.remote[id].bye_sent
                               THEN process_transmission(
                                        D, rudics_mac_msg_(id), has_data, t)
                               ELSE D}}})

\* the loop of do_work over remote_, in the order of the ids
RECURSIVE DoWorkLoop(_, _, _, _)
DoWorkLoop(D, ids, pending, t) ==
    IF ids = {} THEN D
    ELSE LET id == CHOOSE i \in ids : \A j \in ids : i <= j
         IN  The({DoWorkLoop(D1, ids \ {id}, pending, t) :
                    D1 \in {DoWorkRemote(D, id, id \in pending, t)}})

\* rudics_io_.poll() after RUDICSServer::disconnect: the closed connections
\* leave the server and signal their disconnection
RECURSIVE PollClosed(_, _)
PollClosed(D, closed) ==
    IF closed = {} THEN D
    ELSE LET c == CHOOSE c \in closed : TRUE
         IN  The({PollClosed(D1, closed \ {c}) :
                    D1 \in {rudics_disconnect(
                               [D EXCEPT !.connections = @ \ {c}], c)}})

\* const int timeout = 5 of receive_sbd_mo
SbdMoTimeout == 5

\* the body of the loop of receive_sbd_mo for the connection c
SbdMoConnection(D, c, t) ==
    IF c.data_ready
    THEN LET D0 == [D EXCEPT !.mo_processed = Append(@, c.name)]
         IN  The({IF D1.halted THEN D1
                  ELSE [D1 EXCEPT !.mo_connections = @ \ {c}] :
                    D1 \in {IF RudicsPacketOk(c.payload)
                             THEN The({receive(D0, msg, t) :
                                         msg \in {parse_iridium_modem_message(
                                                      c.payload)}})
                             ELSE D0}})
    ELSE IF c.connect_time > 0 /\ t > c.connect_time + SbdMoTimeout
    THEN [D EXCEPT !.mo_connections = @ \ {c}]
    ELSE D

\* IridiumShoreDriver::receive_sbd_mo: the loop over the connections of the
\* server, left to go over
RECURSIVE receive_sbd_mo(_, _, _)
receive_sbd_mo(D, left, t) ==
    IF left = {} \/ D.halted THEN D
    ELSE LET c == CHOOSE c \in left : TRUE
         IN  The({receive_sbd_mo(D1, left \ {c}, t) :
                    D1 \in {SbdMoConnection(D, c, t)}})

\* IridiumShoreDriver::do_work; pending are the ids the application has
\* data for
shore_do_work(D, pending, t) ==
    The({receive_sbd_mo(D2, D2.mo_connections, t) :
           D2 \in {PollClosed(D1, D1.closed) :
                      D1 \in {DoWorkLoop(D, RemoteIds, pending, t)}}})

\* what a call of the driver leaves in last
NoShoreCall ==
    [op |-> "none", conn |-> "", data |-> <<>>, pending |-> {},
     wrote |-> <<>>, tx |-> <<>>, sent |-> {},
     bye_set |-> {}, hungup |-> {}, closed |-> {}, failures |-> <<>>,
     rx |-> <<>>, mt |-> "", mt_connects |-> 0, mt_wrote |-> <<>>,
     mo_processed |-> <<>>, msg |-> ModemTransmission(0, 0, 0, 0),
     has_data |-> FALSE]

ShoreStore(D) ==
    /\ remote_' = D.remote
    /\ clients_' = D.clients
    /\ connections_' = D.connections
    /\ mo_connections_' = D.mo_connections
    /\ mt_client_id' = D.mt_client_id
    /\ halted' = D.halted
    /\ UNCHANGED app_
    /\ UNCHANGED <<queues_, waiting_for_ack_, packet_ack_, now, next_mid>>

ShoreResult(D, op, c, data) ==
    [op |-> op, conn |-> c, data |-> data, pending |-> {},
     wrote |-> D.wrote, tx |-> D.tx,
     sent |-> D.sent, bye_set |-> D.bye_set, hungup |-> D.hungup,
     closed |-> D.closed, failures |-> D.failures, rx |-> D.rx,
     mt |-> IF D.mt_calls > 0 THEN D.mt ELSE "",
     mt_connects |-> D.mt_connects, mt_wrote |-> D.mt_wrote,
     mo_processed |-> D.mo_processed, msg |-> ModemTransmission(0, 0, 0, 0),
     has_data |-> FALSE]

\* the remote ends that may connect
Conns == {"c1", "c2"}

\* the remote the application has data for and that asks for ACKs
BusyRemote == OurModemId + 1

\* a data transmission of src to us, as the remote end sends it
DataFrom(src, rate, ack_requested, frame_start, frame) ==
    [ModemTransmission(src, OurModemId, rate, TransmissionType.DATA)
        EXCEPT !.ack_requested = ack_requested,
               !.frame_start = frame_start, !.frame = frame]

\* the lines a remote end sends: the greetings, "bye", a line that is no
\* packet, packets to us from either id, and from the busy remote also
\* with a request for an ACK
ShoreLines ==
    {GobyLine, NullGobyLine, ByeLine, <<120, CR>>}
        \cup {RudicsPacket(DataFrom(src, RATE_RUDICS, FALSE, 0, <<>>)) :
                src \in RemoteIds}
        \cup {RudicsPacket(DataFrom(BusyRemote, RATE_RUDICS, TRUE, 0, <<>>))}

\* the server accepts a connection: rudics_connect binds the signals
RudicsConnect ==
    /\ ~halted
    /\ \E c \in Conns \ connections_ :
        /\ connections_' = connections_ \cup {c}
        /\ last' = [NoShoreCall EXCEPT !.op = "connect", !.conn = c]
        /\ UNCHANGED <<queues_, waiting_for_ack_, packet_ack_, now, next_mid,
                       remote_, clients_, mo_connections_, mt_client_id,
                       halted, app_>>

\* a line out of lines arrives on a connection: rudics_line
RudicsLine(lines) ==
    /\ ~halted
    /\ \E c \in connections_ : \E data \in lines :
        \E D \in {rudics_line(Drv, data, c, now)} :
            /\ ShoreStore(D)
            /\ last' = ShoreResult(D, "line", c, data)

\* the remote end closes a connection: it leaves the server and
\* rudics_disconnect is signalled
RudicsDisconnect ==
    /\ ~halted
    /\ \E c \in connections_ :
        \E D \in {PollClosed(Drv, {c})} :
            /\ ShoreStore(D)
            /\ last' = ShoreResult(D, "disconnect", c, <<>>)

\* the application calls do_work.  Its loop over remote_ sends to remotes
\* on a call only: the build and the MT gateway matter only when there are
\* SBD-MO connections to go over
ShoreDoWork ==
    /\ ~halted
    /\ \E pending \in SUBSET {BusyRemote} :
        \E ub \in IF mo_connections_ = {} THEN {"halt"} ELSE Builds :
        \E mt \in IF mo_connections_ = {} THEN {"ok"} ELSE MtOutcomes :
            \E D \in {shore_do_work(DrvIn(ub, mt), pending, now)} :
                /\ ShoreStore(D)
                /\ last' = [ShoreResult(D, "do_work", "", <<>>)
                               EXCEPT !.pending = pending]

MaxTimeShore == 3

InitShore == Constructed(<<>>) /\ last = NoShoreCall

NextShore ==
    \/ Tick(MaxTimeShore)
    \/ RudicsConnect
    \/ RudicsLine(ShoreLines)
    \/ RudicsDisconnect
    \/ ShoreDoWork

SpecShore == InitShore /\ [][NextShore]_vars

(***************************************************************************)
(* The shore driver with the MAC: initiated transmissions at either rate,  *)
(* lines of every kind, shutdown.                                           *)
(***************************************************************************)
\* IridiumShoreDriver::shutdown()
shutdown(D) == D

\* the data a frame of a remote end holds, its frame_start
RemoteFrame == <<9>>
RemoteFrameStart == 3

\* the lines a remote end sends: two that are no packets (one starts like
\* a packet and is too short), data of the busy remote, its data that asks
\* for an ACK of a frame (at either rate), data of the second remote that
\* asks for an ACK and has no frame, an ACK that asks for an ACK, data for
\* another node that asks for an ACK
TxLines ==
    {<<120, CR>>, <<SOF, 120, CR>>,
     RudicsPacket(DataFrom(BusyRemote, RATE_RUDICS, FALSE, 0, <<>>)),
     RudicsPacket(DataFrom(OurModemId + 2, RATE_RUDICS, TRUE, 0, <<>>)),
     RudicsPacket([DataFrom(BusyRemote, RATE_RUDICS, TRUE, 0, <<>>)
                      EXCEPT !.type = TransmissionType.ACK]),
     RudicsPacket([DataFrom(BusyRemote, RATE_RUDICS, TRUE, 0, <<>>)
                      EXCEPT !.dest = OurModemId + 2])}
        \cup {RudicsPacket(DataFrom(BusyRemote, rate, TRUE,
                                    RemoteFrameStart, <<RemoteFrame>>)) :
                rate \in {RATE_RUDICS, RATE_SBD}}

\* the messages create_sbd_mt_data_message may build
MaxClientId == 2

\* the MAC initiates a transmission: handle_initiate_transmission.  Only a
\* transmission at the RUDICS rate can meet a null on_call, only one at
\* the SBD rate the MT gateway
InitiateTransmission ==
    /\ ~halted
    /\ mt_client_id < MaxClientId
    /\ \E dest \in RemoteIds : \E rate \in {RATE_SBD, RATE_RUDICS} :
        \E has_data \in BOOLEAN :
        \E ub \in IF rate = RATE_RUDICS THEN Builds ELSE {"halt"} :
        \E mt \in IF rate = RATE_SBD THEN MtOutcomes ELSE {"ok"} :
            \E msg \in {ModemTransmission(OurModemId, dest, rate,
                                          TransmissionType.DATA)} :
                \E D \in {process_transmission(DrvIn(ub, mt), msg,
                                               has_data, now)} :
                    /\ ShoreStore(D)
                    /\ last' = [ShoreResult(D, "initiate", "", <<>>)
                                   EXCEPT !.msg = msg,
                                          !.has_data = has_data]

\* the application shuts the driver down
Shutdown ==
    /\ ~halted
    /\ \E D \in {shutdown(Drv)} :
            /\ ShoreStore(D)
            /\ last' = ShoreResult(D, "shutdown", "", <<>>)

MaxTimeTx == 1

InitTx == Constructed(<<>>) /\ last = NoShoreCall

NextTx ==
    \/ Tick(MaxTimeTx)
    \/ RudicsConnect
    \/ RudicsLine(TxLines)
    \/ RudicsDisconnect
    \/ ShoreDoWork
    \/ InitiateTransmission
    \/ Shutdown

SpecTx == InitTx /\ [][NextTx]_vars

(***************************************************************************)
(* The shore driver with SBD-MO connections.  The clock reads the seconds  *)
(* since the epoch and is positive.                                         *)
(***************************************************************************)
\* the SBD-MO connections that may be accepted
MoConns == {"m1", "m2"}

\* the payloads of the SBD-MO messages: no packet, data of the second
\* remote, data of the busy remote that asks for an ACK at either rate
SbdPayloads ==
    {<<120>>,
     RudicsPacket(DataFrom(OurModemId + 2, RATE_SBD, FALSE, 0, <<>>))}
        \cup {RudicsPacket(DataFrom(BusyRemote, rate, TRUE,
                                    RemoteFrameStart, <<RemoteFrame>>)) :
                rate \in {RATE_SBD, RATE_RUDICS}}

MaxTimeSbd == 8

\* the SBD server accepts a connection and starts it: connect_time is now
SbdAccept ==
    /\ ~halted
    /\ now + SbdMoTimeout < MaxTimeSbd
    /\ \E name \in MoConns \ {c.name : c \in mo_connections_} :
        /\ mo_connections_' = mo_connections_
              \cup {[name |-> name, connect_time |-> now,
                     data_ready |-> FALSE, payload |-> <<>>]}
        /\ last' = [NoShoreCall EXCEPT !.op = "accept", !.conn = name]
        /\ UNCHANGED <<queues_, waiting_for_ack_, packet_ack_, now, next_mid,
                       remote_, clients_, connections_, mt_client_id,
                       halted, app_>>

\* the message of an SBD-MO connection is read to its end
SbdMessage ==
    /\ ~halted
    /\ mt_client_id + Cardinality({c \in mo_connections_ : c.data_ready})
          < MaxClientId
    /\ \E c \in mo_connections_ : \E payload \in SbdPayloads :
        /\ ~c.data_ready
        /\ mo_connections_' = (mo_connections_ \ {c})
              \cup {[c EXCEPT !.data_ready = TRUE, !.payload = payload]}
        /\ last' = [NoShoreCall EXCEPT !.op = "message", !.conn = c.name,
                                       !.data = payload]
        /\ UNCHANGED <<queues_, waiting_for_ack_, packet_ack_, now, next_mid,
                       remote_, clients_, connections_, mt_client_id,
                       halted, app_>>

InitSbd ==
    /\ queues_ = <<>>
    /\ waiting_for_ack_ = EmptyBag
    /\ packet_ack_ = FALSE
    /\ next_mid = 1
    /\ ShoreConstructed
    /\ AppConstructed
    /\ now = 1
    /\ last = NoShoreCall

NextSbd ==
    \/ Tick(MaxTimeSbd)
    \/ SbdAccept
    \/ SbdMessage
    \/ ShoreDoWork

\* do_work is called again and again, and time passes
SpecSbd ==
    /\ InitSbd
    /\ [][NextSbd]_vars
    /\ WF_vars(ShoreDoWork)
    /\ WF_vars(Tick(MaxTimeSbd))

(***************************************************************************)
(* The SBD-MT message on its own: create_sbd_mt_data_message for payloads  *)
(* of several lengths, two IMEIs and client ids around the byte borders.   *)
(***************************************************************************)
\* a second IMEI
OtherImei == <<51, 48, 48, 50, 51, 52, 48, 54, 48, 57, 56, 55, 54, 53, 49>>

\* the payloads: k bytes, each its position modulo 256
MtPayloads ==
    {[k \in 1..n |-> k % 256] : n \in {0, 1, 228, 229, 230, 256, 300}}

\* the values the counter of client ids starts from: 0 and the values
\* before a further byte of the id comes into use
MtFirstIds == {0, 255, 256 * 256 - 1, 256 * 256 * 256 - 1}

\* the messages built from each of them
MaxBuilt == 2

\* send_sbd_mt builds the message for bytes and imei
BuildMt ==
    /\ \E first \in MtFirstIds :
          first <= mt_client_id /\ mt_client_id < first + MaxBuilt
    /\ \E bytes \in MtPayloads : \E imei \in {Imei, OtherImei} :
        /\ mt_client_id' = mt_client_id + 1
        /\ last' = [op |-> "build", bytes |-> bytes, imei |-> imei,
                    client_id |-> mt_client_id,
                    message |-> create_sbd_mt_data_message(bytes, imei,
                                                           mt_client_id)]
        /\ UNCHANGED <<queues_, waiting_for_ack_, packet_ack_, now, next_mid,
                       remote_, clients_, connections_, mo_connections_,
                       halted, app_>>

InitMt ==
    /\ queues_ = <<>>
    /\ waiting_for_ack_ = EmptyBag
    /\ packet_ack_ = FALSE
    /\ now = 0
    /\ next_mid = 1
    /\ remote_ = [id \in RemoteIds |-> NullOnCall]
    /\ clients_ = {}
    /\ connections_ = {}
    /\ mo_connections_ = {}
    /\ halted = FALSE
    /\ mt_client_id \in MtFirstIds
    /\ AppConstructed
    /\ last = [op |-> "none"]

NextMt == BuildMt

SpecMt == InitMt /\ [][NextMt]_vars

(***************************************************************************)
(* The default arithmetic field codec of libdccl                            *)
(* (DCCLDefaultArithmeticFieldCodec).  The doubles of the codec are exact   *)
(* decimals here: a number is the integer count of its units of             *)
(* 10^-MaxPrecision.                                                        *)
(***************************************************************************)
\* the largest dccl.precision of the fields
MaxPrecision == 1

\* std::pow(10.0, p), for 0 <= p
RECURSIVE Pow10(_)
Pow10(p) == IF p <= 0 THEN 1 ELSE 10 * Pow10(p - 1)

RECURSIVE Pow2(_)
Pow2(w) == IF w <= 0 THEN 1 ELSE 2 * Pow2(w - 1)

\* the number 1
Unit == Pow10(MaxPrecision)

\* goby::util::unbiased_round(r, dec): r to dec decimals, to the nearest, a
\* tie to the even neighbour
unbiased_round(r, dec) ==
    LET ex == Pow10(dec)
        final == (r * ex) \div Unit
        s == (r * ex) % Unit
    IN  IF 2 * s < Unit \/ (2 * s = Unit /\ final % 2 = 0)
        THEN final * (Unit \div ex)
        ELSE (final + 1) * (Unit \div ex)

\* goby::util::as<unsigned long> of a double: the nearest integer
as_unsigned_long(v) == unbiased_round(v, 0) \div Unit

\* Bitset(size, value): the low size bits of value, as to_ulong() gives them
Bitset(bits, value) == value % Pow2(bits)

\* DCCLDefaultArithmeticFieldCodec::size for the field f
RECURSIVE CeilLog2From(_, _)
CeilLog2From(y, w) == IF Pow2(w) * Unit >= y THEN w ELSE CeilLog2From(y, w + 1)

NULL_VALUE == 1

arithmetic_size(f) ==
    CeilLog2From((f.max - f.min) * Pow10(f.precision) + Unit
                    + NULL_VALUE * Unit, 0)

\* DCCLDefaultArithmeticFieldCodec::encode()
arithmetic_encode_empty(f) == Bitset(arithmetic_size(f), 0)

\* (variant: the scaled value is cut off, not rounded, and zero not kept free)
arithmetic_encode_unrounded(f, value) ==
    IF value < f.min \/ value > f.max
    THEN Bitset(arithmetic_size(f), 0)
    ELSE Bitset(arithmetic_size(f),
                ((value - f.min) * Pow10(f.precision)) \div Unit)

\* DCCLDefaultArithmeticFieldCodec::encode(value)
arithmetic_encode(f, value) ==
    IF value < f.min \/ value > f.max
    THEN Bitset(arithmetic_size(f), 0)
    ELSE LET rounded == unbiased_round(value, f.precision)
             shifted == rounded - f.min
             scaled == shifted * Pow10(f.precision)
         IN  Bitset(arithmetic_size(f), as_unsigned_long(scaled) + 1)

\* what decode gives: a value, or DCCLNullValueException (the field is absent)
DCCLNullValueException == [null |-> TRUE, value |-> 0]

\* DCCLDefaultArithmeticFieldCodec::decode
arithmetic_decode(f, t) ==
    IF t = 0 THEN DCCLNullValueException
    ELSE [null |-> FALSE,
          value |-> unbiased_round(
                        ((t - 1) * Unit) \div Pow10(f.precision) + f.min,
                        f.precision)]

\* the fields: dccl.min, and dccl.max up to MaxSpan units above it
ArithMins == {-15, 0, 6, 10}

MaxSpan == 30

\* the values go from Margin units below dccl.min to Margin above dccl.max
Margin == 12

ArithFields ==
    {[min |-> lo, max |-> lo + span, precision |-> p] :
        lo \in ArithMins, span \in 0..MaxSpan, p \in 0..MaxPrecision}

\* encode(value) of a field
ArithEncode ==
    /\ last.op = "field"
    /\ last' = [last EXCEPT !.op = "encode",
                            !.size = arithmetic_size(last.f),
                            !.bits = arithmetic_encode(last.f, last.value)]
    /\ UNCHANGED <<queues_, waiting_for_ack_, packet_ack_, now, next_mid>>
    /\ UNCHANGED shore
    /\ UNCHANGED app_

\* encode() of a field that is not set
ArithEncodeEmpty ==
    /\ last.op = "field"
    /\ last' = [last EXCEPT !.op = "encode_empty",
                            !.size = arithmetic_size(last.f),
                            !.bits = arithmetic_encode_empty(last.f)]
    /\ UNCHANGED <<queues_, waiting_for_ack_, packet_ack_, now, next_mid>>
    /\ UNCHANGED shore
    /\ UNCHANGED app_

\* decode of the bits encode gave
ArithDecode ==
    /\ last.op \in {"encode", "encode_empty"}
    /\ last' = [last EXCEPT !.op = "decode", !.from = last.op,
                            !.decoded = arithmetic_decode(last.f, last.bits)]
    /\ UNCHANGED <<queues_, waiting_for_ack_, packet_ack_, now, next_mid>>
    /\ UNCHANGED shore
    /\ UNCHANGED app_

InitArith ==
    /\ queues_ = <<>>
    /\ waiting_for_ack_ = EmptyBag
    /\ packet_ack_ = FALSE
    /\ now = 0
    /\ next_mid = 1
    /\ remote_ = [id \in RemoteIds |-> NullOnCall]
    /\ clients_ = {}
    /\ connections_ = {}
    /\ mo_connections_ = {}
    /\ halted = FALSE
    /\ mt_client_id = 0
    /\ AppConstructed
    /\ \E f \in ArithFields :
        \E value \in (f.min - Margin)..(f.max + Margin) :
            last = [op |-> "field", f |-> f, value |-> value, size |-> 0,
                    bits |-> 0, from |-> "none",
                    decoded |-> DCCLNullValueException]

NextArith == ArithEncode \/ ArithEncodeEmpty \/ ArithDecode

SpecArith == InitArith /\ [][NextArith]_vars

(***************************************************************************)
(* The goby_modemdriver application (ModemDriver): one thread that is       *)
(* either in Application::run, whose poll runs the subscription handlers    *)
(* and which calls loop(), or inside a call of the driver made by loop(),   *)
(* or inside handle_modem_data_request, which the driver calls through      *)
(* signal_data_request and which polls again.  app_.stack is the call       *)
(* stack above Application::run.  A poll of 10 ms takes no time on the      *)
(* clock of seconds.                                                        *)
(***************************************************************************)
\* cfg_.data_request_timeout(), in seconds
data_request_timeout == 1

MaxTx == 2
MaxRequests == 2
MaxResponses == 2
MaxTimeApp == 3

\* the innermost call of the thread
Top(a) == IF a.stack = <<>> THEN "run" ELSE a.stack[Len(a.stack)]

Pop(stack) == SubSeq(stack, 1, Len(stack) - 1)

\* the thread is inside zeromq_service().poll(), where the subscription
\* handlers run
InPoll(a) == Top(a) \in {"run", "poll"}

\* ModemDriver::handle_initiate_transmission(message)
handle_initiate_transmission(a, message) ==
    [a EXCEPT !.initiate_transmit_pending_ = TRUE,
              !.initiate_transmission_ = message]

\* ModemDriver::handle_data_response(message)
handle_data_response(a, message) ==
    [a EXCEPT !.data_response_received_ = TRUE,
              !.data_response_ = message]

\* (variant: the flag of an earlier response is not taken back)
handle_modem_data_request_keeps_flag(a, msg, t) ==
    [a EXCEPT !.published = @ + 1,
              !.msg = msg,
              !.start_time = t,
              !.arrived = 0,
              !.stack = Append(@, "data_request")]

\* ModemDriver::handle_modem_data_request(msg) up to its loop: the request
\* is published, data_response_received_ is taken back and the time noted
handle_modem_data_request(a, msg, t) ==
    [a EXCEPT !.published = @ + 1,
              !.data_response_received_ = FALSE,
              !.msg = msg,
              !.start_time = t,
              !.arrived = 0,
              !.stack = Append(@, "data_request")]

\* the loop of handle_modem_data_request after a poll has returned
after_poll(a) ==
    LET a1 == [a EXCEPT !.stack = Pop(@)]
    IN  IF a.data_response_received_
        THEN LET a2 == [a1 EXCEPT !.msg = a.data_response_]
             IN  [a2 EXCEPT !.stack = Pop(@),
                            !.done = Append(@, [to |-> a.published,
                                                msg |-> a2.msg,
                                                arrived |-> a.arrived,
                                                timeout |-> FALSE])]
        ELSE a1

\* ModemDriver::loop() after do_work has returned
after_do_work(a) ==
    IF a.initiate_transmit_pending_
    THEN [a EXCEPT !.stack = <<"initiate">>,
                   !.delivered = Append(@, a.initiate_transmission_)]
    ELSE [a EXCEPT !.stack = <<>>]

\* ModemDriver::loop() after driver_->handle_initiate_transmission has
\* returned
after_initiate(a) ==
    [a EXCEPT !.initiate_transmit_pending_ = FALSE, !.stack = <<>>]

AppStep(a) ==
    /\ app_' = a
    /\ UNCHANGED <<queues_, waiting_for_ack_, packet_ack_, now, next_mid,
                   last>>
    /\ UNCHANGED shore

\* a message of group Tx<modem_id> is handled in a poll
HandleInitiateTransmission ==
    /\ InPoll(app_)
    /\ app_.tx < MaxTx
    /\ AppStep(handle_initiate_transmission([app_ EXCEPT !.tx = @ + 1],
                                            app_.tx + 1))

\* a message of group DataResponse<modem_id> is handled in a poll; it
\* answers one of the requests published so far
HandleDataResponse ==
    /\ InPoll(app_)
    /\ app_.responses < MaxResponses
    /\ \E to \in 1..app_.published :
         AppStep(handle_data_response(
                     [app_ EXCEPT !.responses = @ + 1, !.arrived = @ + 1],
                     [kind |-> "response", to |-> to,
                      during |-> app_.published]))

\* Application::run calls loop(), which calls driver_->do_work()
Loop ==
    /\ app_.stack = <<>>
    /\ AppStep([app_ EXCEPT !.stack = <<"do_work">>])

\* the driver emits signal_data_request from do_work or from
\* handle_initiate_transmission
SignalDataRequest ==
    /\ Top(app_) \in {"do_work", "initiate"}
    /\ app_.published < MaxRequests
    /\ AppStep(handle_modem_data_request(
                   app_, [kind |-> "request", to |-> app_.published + 1,
                          during |-> 0], now))

\* while(goby_time() < start_time + data_request_timeout) poll
RequestPoll ==
    /\ Top(app_) = "data_request"
    /\ now < app_.start_time + data_request_timeout
    /\ AppStep([app_ EXCEPT !.stack = Append(@, "poll")])

PollReturns ==
    /\ Top(app_) = "poll"
    /\ AppStep(after_poll(app_))

\* the loop of handle_modem_data_request ends on the time
RequestTimesOut ==
    /\ Top(app_) = "data_request"
    /\ ~(now < app_.start_time + data_request_timeout)
    /\ AppStep([app_ EXCEPT !.stack = Pop(@),
                            !.done = Append(@, [to |-> app_.published,
                                                msg |-> app_.msg,
                                                arrived |-> app_.arrived,
                                                timeout |-> TRUE])])

DoWorkReturns ==
    /\ app_.stack = <<"do_work">>
    /\ AppStep(after_do_work(app_))

InitiateReturns ==
    /\ app_.stack = <<"initiate">>
    /\ AppStep(after_initiate(app_))

AppTick ==
    /\ now < MaxTimeApp
    /\ Top(app_) # "poll"
    /\ now' = now + 1
    /\ UNCHANGED <<queues_, waiting_for_ack_, packet_ack_, next_mid, last,
                   app_>>
    /\ UNCHANGED shore

InitApp == Constructed(<<>>) /\ last = NoCall

NextApp ==
    \/ HandleInitiateTransmission
    \/ HandleDataResponse
    \/ Loop
    \/ SignalDataRequest
    \/ RequestPoll
    \/ PollReturns
    \/ RequestTimesOut
    \/ DoWorkReturns
    \/ InitiateReturns
    \/ AppTick

SpecApp == InitApp /\ [][NextApp]_vars

(***************************************************************************)
(* Properties of SpecAck.                                                   *)
(***************************************************************************)
\* the list nodes of a queue
Mids(q) == {q.messages[i].mid : i \in 1..Len(q.messages)}

\* message mid of queue k waits for an ACK of frame
Pending(k, frame, mid) ==
    <<frame, mid>> \in BagToSet(queues_[k].waiting_for_ack)

\* the step is a handle_modem_ack for frame that is addressed to us
AckStepFor(frame) ==
    /\ last'.op = "handle_ack"
    /\ last'.frame = frame
    /\ last'.dest = OurModemId

\* the step is a do_work that expires message mid of queue k
ExpireStepFor(k, mid) ==
    /\ last'.op = "do_work"
    /\ \E i \in 1..Len(last'.expired) :
           last'.expired[i] = [key |-> k, mid |-> mid]

\* the step is a push to queue k, which is newest_first and at its capacity
OverflowStepFor(k) ==
    /\ last'.op = "push"
    /\ last'.key = k
    /\ queues_[k].cfg.newest_first
    /\ queues_[k].cfg.max_queue > 0
    /\ Len(queues_[k].messages) >= queues_[k].cfg.max_queue

\* C1 as stated: a message waiting for the ACK of frame f leaves its queue
\* only in a handle_ack for f or in the do_work that expires it.
C1_Original ==
    [][\A k \in DOMAIN queues_ : \A f \in AckFrames :
         \A mid \in Mids(queues_[k]) :
           (Pending(k, f, mid) /\ mid \notin Mids(queues_'[k]))
             => (AckStepFor(f) \/ ExpireStepFor(k, mid))]_vars

\* C1 (amended): an ACK-required message leaves its queue only in a
\* handle_ack addressed to us for a frame it is pending under, in the do_work
\* that expires it, or in a push that overflows its newest-first queue; no
\* other operation (provide_outgoing, request_next_destination, an ACK for
\* another frame or modem, a tick) removes it.
C1_AckObligation ==
    [][\A k \in DOMAIN queues_ : \A i \in 1..Len(queues_[k].messages) :
         LET m == queues_[k].messages[i]
         IN  (m.ack /\ m.mid \notin Mids(queues_'[k]))
               => \/ \E f \in AckFrames : Pending(k, f, m.mid) /\ AckStepFor(f)
                  \/ ExpireStepFor(k, m.mid)
                  \/ OverflowStepFor(k)]_vars

\* a message given out in an earlier frame is still pending and queued after
\* a later data request for another frame
C1_Witness ==
    /\ last.op = "provide_outgoing"
    /\ \E k \in DOMAIN queues_ : \E f \in AckFrames :
         \E mid \in Mids(queues_[k]) :
           /\ Pending(k, f, mid)
           /\ f # last.frame
           /\ \A i \in 1..Len(last.given) : last.given[i].msg.mid # mid

\* C2: a handle_ack whose destination is not our modem id, or for whose frame
\* no ACK is pending, changes no queue, no ACK tracking and not the
\* pending-ACK table, and calls no ACK callback.
C2_AckNoOp ==
    [][(/\ last'.op = "handle_ack"
        /\ \/ last'.dest # OurModemId
           \/ \A e \in BagToSet(waiting_for_ack_) : e[1] # last'.frame)
       => /\ queues_' = queues_
          /\ waiting_for_ack_' = waiting_for_ack_
          /\ packet_ack_' = packet_ack_
          /\ last'.acked = <<>>]_vars

\* an ACK for a frame we wait for, addressed to another modem, was ignored
C2_Witness ==
    /\ last.op = "handle_ack"
    /\ last.dest # OurModemId
    /\ \E e \in BagToSet(waiting_for_ack_) : e[1] = last.frame
    /\ \E k \in DOMAIN queues_ : \E mid \in Mids(queues_[k]) :
         Pending(k, last.frame, mid)

\* C3: in a handle_ack(f) addressed to us, every message pending under f is
\* removed from its queue and the ACK callback is called exactly once for
\* it; the callback is called for nothing else; afterwards neither the
\* manager nor any queue keeps an entry for f (a repeated handle_ack(f) is
\* then the no-op of C2); and an entry under f only ever comes from the
\* give_data of a data request for f, so the ACK follows the give.
C3_AckPops ==
    [][/\ \A f \in AckFrames : AckStepFor(f) =>
            /\ \A k \in DOMAIN queues_ : \A mid \in Mids(queues_[k]) :
                 Pending(k, f, mid) =>
                   /\ mid \notin Mids(queues_'[k])
                   /\ Cardinality({i \in 1..Len(last'.acked) :
                         last'.acked[i] = [key |-> k, mid |-> mid]}) = 1
            /\ \A i \in 1..Len(last'.acked) :
                 /\ last'.acked[i].key \in DOMAIN queues_
                 /\ Pending(last'.acked[i].key, f, last'.acked[i].mid)
            /\ \A e \in BagToSet(waiting_for_ack_') : e[1] # f
            /\ \A k \in DOMAIN queues_ :
                 \A e \in BagToSet(queues_'[k].waiting_for_ack) : e[1] # f
       /\ \A k \in DOMAIN queues_ :
            \A e \in BagToSet(queues_'[k].waiting_for_ack) :
              e \notin BagToSet(queues_[k].waiting_for_ack) =>
                /\ last'.op = "provide_outgoing"
                /\ last'.frame = e[1]
                /\ \E i \in 1..Len(last'.given) :
                     /\ last'.given[i].key = k
                     /\ last'.given[i].msg.mid = e[2]]_vars

\* one ACK popped two messages of one queue that went out in one frame
C3_Witness ==
    /\ last.op = "handle_ack"
    /\ Len(last.acked) = 2
    /\ last.acked[1].key = last.acked[2].key
    /\ last.acked[1].mid # last.acked[2].mid

\* C5 as stated: after a data request, each message given out is gone from
\* its queue exactly if its own ACK-required flag is unset.
C5_PoppedIffNoAck ==
    last.op = "provide_outgoing" =>
       \A i \in 1..Len(last.given) :
          (last.given[i].msg.mid \notin Mids(queues_[last.given[i].key]))
             <=> ~last.given[i].msg.ack

Better(M, a, b, request, t) ==
    LET pa == priority_values(M.queues[a], request, t)
        pb == priority_values(M.queues[b], request, t)
    IN  \/ PriorityGreater(pa.priority, pb.priority)
        \/ /\ PriorityEqual(pa.priority, pb.priority)
           /\ pa.last_send_time < pb.last_send_time

\* find_next_sender returns a queue that no eligible queue beats, and no
\* queue exactly when none is eligible
WinnerIsBest(M, request, user_frame_num, t) ==
    LET w == find_next_sender(M, request, user_frame_num, t, NoOnDemand).win
        E == Eligible(M, request, user_frame_num, t)
    IN  IF E = {} THEN w = NoKey
        ELSE /\ w \in E
             /\ \A k \in E : ~Better(M, k, w, request, t)

\* in every state, for every request size, for the first user frame and for
\* a later one
ContestFindsBest ==
    \A sz \in PriReqSizes \cup {UnsignedTop} : \A n \in 0..1 :
        WinnerIsBest(Mgr, [frame |-> 0, size |-> sz], n, now)

\* the messages of queue k before the step are, after it, in the packet
\* behind its first user frame or still in the queue
FollowsFirst(k) ==
    \A mid \in Mids(queues_[k]) :
        \/ mid \in Mids(queues_'[k])
        \/ \E i \in 2..Len(last'.given) :
              last'.given[i].key = k /\ last'.given[i].msg.mid = mid

\* the step is a data request for which exactly QA (base 1) and QB (base 2)
\* are eligible
TwoQueuesStep ==
    /\ last'.op = "provide_outgoing"
    /\ last'.eligible = {QA, QB}

C6_CclAlone ==
    /\ \A sz \in PriReqSizes \cup {UnsignedTop} : \A n \in 1..MaxUserFrames :
          find_next_sender(Mgr, [frame |-> 0, size |-> sz], n, now,
                           NoOnDemand).win[1] # "ccl"
    /\ last.op = "provide_outgoing" =>
          \A i \in 1..Len(last.given) :
              last.given[i].key[1] = "ccl" => (i = 1 /\ Len(last.given) = 1)

\* a packet holds a CCL message alone although a DCCL queue has a message
\* that fits the room left
C6_Witness ==
    /\ last.op = "provide_outgoing"
    /\ Len(last.given) = 1
    /\ last.given[1].key[1] = "ccl"
    /\ \E k \in Eligible(Mgr, [frame |-> last.frame,
                              size |-> last.size - last.given[1].msg.size],
                         0, now) : k[1] = "dccl"

\* queues of both kinds are eligible for the first user frame
BothKinds(E) == (\E c \in E : c[1] = "ccl") /\ (\E d \in E : d[1] = "dccl")

\* the packet is one CCL message
CclWholePacket(given) == Len(given) = 1 /\ given[1].key[1] = "ccl"

\* C7 as stated: whenever a CCL and a DCCL queue are both eligible for the
\* first user frame, the packet is the CCL message alone.
C7_Original ==
    (last.op = "provide_outgoing" /\ BothKinds(last.eligible))
        => CclWholePacket(last.given)

\* C7 (amended): when a CCL and a DCCL queue are both eligible for the first
\* user frame and the CCL queue beats every eligible DCCL queue (greater
\* priority, or equal priority and older last_send_time), the packet is the
\* CCL message alone and holds no DCCL sub-frame.
C7_CclWinsWhenBest ==
    [][(/\ last'.op = "provide_outgoing"
        /\ BothKinds(last'.eligible)
        /\ \E c \in last'.eligible :
              /\ c[1] = "ccl"
              /\ \A d \in last'.eligible :
                    d[1] = "dccl" =>
                       Better(Started(Mgr, last'.frame), c, d,
                              [frame |-> last'.frame, size |-> last'.size],
                              now))
       => CclWholePacket(last'.given)]_vars

\* with both kinds eligible the CCL queue won, and its message went alone
C7_Witness ==
    /\ last.op = "provide_outgoing"
    /\ BothKinds(last.eligible)
    /\ CclWholePacket(last.given)

\* message m of a queue with configuration cfg is older than the TTL
OlderThanTtl(cfg, m) == now > m.time + cfg.ttl

\* C14: a do_work removes from every queue exactly the messages older than
\* the queue's TTL, keeps the others in their order, and calls the expire
\* callback once for each message removed, with the key of its queue, and
\* for nothing else; the passing of time alone changes no queue.
C14_ExpireOnDoWork ==
    [][/\ last'.op = "do_work" =>
            /\ \A k \in DOMAIN queues_ :
                 /\ queues_'[k].messages
                       = SelectSeq(queues_[k].messages,
                                   LAMBDA m : ~OlderThanTtl(queues_[k].cfg, m))
                 /\ \A i \in 1..Len(queues_[k].messages) :
                       OlderThanTtl(queues_[k].cfg, queues_[k].messages[i]) =>
                          Cardinality({j \in 1..Len(last'.expired) :
                              last'.expired[j]
                                 = [key |-> k,
                                    mid |-> queues_[k].messages[i].mid]}) = 1
            /\ \A j \in 1..Len(last'.expired) :
                 /\ last'.expired[j].key \in DOMAIN queues_
                 /\ \E i \in 1..Len(queues_[last'.expired[j].key].messages) :
                       LET q == queues_[last'.expired[j].key]
                       IN  /\ q.messages[i].mid = last'.expired[j].mid
                           /\ OlderThanTtl(q.cfg, q.messages[i])
       /\ last'.op = "tick" => queues_' = queues_]_vars

\* a do_work expired two messages of one queue and left a younger one
C14_Witness ==
    /\ last.op = "do_work"
    /\ Len(last.expired) = 2
    /\ last.expired[1].key = last.expired[2].key
    /\ \E k \in DOMAIN queues_ : size(queues_[k]) > 0

\* queues a and b are both eligible, have the same priority_base and
\* priority_time_constant, and the newest message of a is older than that of b
OlderNewest(E, a, b) ==
    /\ a \in E /\ b \in E /\ a # b
    /\ queues_[a].cfg.priority_base = queues_[b].cfg.priority_base
    /\ queues_[a].cfg.priority_time_constant
           = queues_[b].cfg.priority_time_constant
    /\ newest_msg_time(queues_[a]) < newest_msg_time(queues_[b])

BodyLen(m) == Len(m.data) - DCCL_NUM_HEADER_BYTES

\* a frame as it is handed up: flags cleared, the CCL-id in front
Cleared(data) ==
    [data EXCEPT ![1] = DCCL_CCL_HEADER,
                 ![DCCL_NUM_HEADER_BYTES - 1] = 0,
                 ![DCCL_NUM_HEADER_BYTES] = 0]

\* a stitched packet of in was received, addressed to us, and every frame of
\* in belongs to a queue we have
RoundTrip ==
    /\ last.op = "receive"
    /\ last.in # <<>>
    /\ last.dest = OurModemId
    /\ \A i \in 1..Len(last.in) :
          QueueKey("dccl", last.in[i].data[2]) \in DOMAIN queues_

\* the frames of in, in order, are what was handed up
RoundTripExact ==
    /\ Len(last.rx) = Len(last.in)
    /\ \A i \in 1..Len(last.in) :
          /\ last.rx[i].cb = "receive"
          /\ last.rx[i].data = Cleared(last.in[i].data)

\* C8 as stated: any stitched sequence of DCCL frames is handed up frame by
\* frame, in order, flags cleared and CCL-id restored.
C8_Original == RoundTrip => RoundTripExact

\* C8 (amended): a stitched sequence of DCCL frames in which every frame but
\* the last has a body of fewer than BYTE_VALUES bytes (its length fits the
\* size byte) is handed up frame by frame: as many frames, in the same
\* order, each with its flags cleared and the CCL-id restored.
C8_StitchInverse ==
    (/\ RoundTrip
     /\ \A i \in 1..(Len(last.in) - 1) : BodyLen(last.in[i]) < BYTE_VALUES)
        => RoundTripExact

\* MaxUserFrames frames came back, one of which went out with its flags set
C8_Witness ==
    /\ RoundTrip
    /\ Len(last.in) = MaxUserFrames
    /\ RoundTripExact
    /\ \E i \in 1..Len(last.in) : last.in[i].data[DCCL_NUM_HEADER_BYTES] = 1
    /\ \E i \in 1..Len(last.in) : BodyLen(last.in[i]) > 0

\* where the bytes of user frame i start in the packet stitched of in (the
\* number of bytes before them)
RECURSIVE PieceStart(_, _)
PieceStart(in, i) ==
    IF i = 1 THEN 1
    ELSE PieceStart(in, i - 1) + (DCCL_NUM_HEADER_BYTES - 1) + 1
             + BodyLen(in[i - 1])

DcclDispatch ==
    \A i \in 1..Len(last.rx) :
        /\ last.rx[i].cb = "receive"
        /\ last.rx[i].key
              = QueueKey("dccl", HeaderDecode(last.rx[i].data).dccl_id)
        /\ last.rx[i].key \in DOMAIN queues_
        /\ last.rx[i].dest \in {OurModemId, BROADCAST_ID}
        /\ last.rx[i].dest = BROADCAST_ID \/ last.dest = OurModemId

\* the one CCL callback for the frame received
CclDelivered ==
    last.rx = <<[cb |-> "receive_ccl", key |-> QueueKey("ccl", last.out[1]),
                 data |-> last.out, dest |-> last.dest]>>

\* C10 as stated: a DCCL frame is split and handed up only to queues we
\* have and only if for us or for everyone; any other frame goes to the CCL
\* callback exactly if we have the CCL queue of its first byte.
C10_Original ==
    last.op = "receive" =>
       IF last.out[1] = DCCL_CCL_HEADER THEN DcclDispatch
       ELSE IF QueueKey("ccl", last.out[1]) \in DOMAIN queues_
       THEN CclDelivered
       ELSE last.rx = <<>>

\* C10 (amended): a received frame shorter than DCCL_NUM_HEADER_BYTES is
\* dropped whatever its first byte; of the others, a DCCL frame is split
\* and handed up only to queues we have and only if for us or for everyone,
\* and any other frame goes to the CCL callback exactly if we have the CCL
\* queue of its first byte.
C10_InboundDispatch ==
    last.op = "receive" =>
       IF Len(last.out) < DCCL_NUM_HEADER_BYTES THEN last.rx = <<>>
       ELSE IF last.out[1] = DCCL_CCL_HEADER THEN DcclDispatch
       ELSE IF QueueKey("ccl", last.out[1]) \in DOMAIN queues_
       THEN CclDelivered
       ELSE last.rx = <<>>

\* a packet addressed to another modem, of which only the broadcast
\* sub-frame was handed up
C10_Witness ==
    /\ last.op = "receive"
    /\ last.dest = OtherModemId
    /\ Len(last.in) > 1
    /\ Len(last.rx) = 1
    /\ last.rx[1].dest = BROADCAST_ID

\* frame i of the packet received can be handed up: we have its queue, and
\* it is for everyone or the packet is for us
Deliverable(i) ==
    /\ QueueKey("dccl", last.in[i].data[2]) \in DOMAIN queues_
    /\ last.in[i].dest = BROADCAST_ID \/ last.dest = OurModemId

\* the frames of the packet received that can be handed up, in order
DeliverableFrames ==
    SelectSeq([i \in 1..Len(last.in) |-> i], LAMBDA i : Deliverable(i))

\* a packet stitched of frames whose lengths fit their size bytes was
\* received
ReceivedPacket ==
    /\ last.op = "receive"
    /\ last.in # <<>>
    /\ \A i \in 1..(Len(last.in) - 1) : BodyLen(last.in[i]) < BYTE_VALUES

\* C11: of a received packet exactly the sub-frames that can be delivered
\* are handed up, in order, whatever sub-frames before them were dropped
\* (queue unknown, or neither for us nor for everyone); and receiving
\* changes no queue and no ACK bookkeeping.
C11_DropOnlyOffending ==
    /\ [](ReceivedPacket =>
            /\ Len(last.rx) = Len(DeliverableFrames)
            /\ \A j \in 1..Len(last.rx) :
                  /\ last.rx[j].data = Cleared(last.in[DeliverableFrames[j]].data)
                  /\ last.rx[j].key
                        = QueueKey("dccl", last.in[DeliverableFrames[j]].data[2]))
    /\ [][last'.op = "receive" =>
            /\ queues_' = queues_
            /\ waiting_for_ack_' = waiting_for_ack_
            /\ packet_ack_' = packet_ack_]_vars

\* a packet whose first sub-frame was dropped for its unknown queue and
\* whose second for its destination, and whose last was handed up
C11_Witness ==
    /\ ReceivedPacket
    /\ Len(last.in) = MaxUserFrames
    /\ QueueKey("dccl", last.in[1].data[2]) \notin DOMAIN queues_
    /\ ~Deliverable(2)
    /\ QueueKey("dccl", last.in[2].data[2]) \in DOMAIN queues_
    /\ Deliverable(Len(last.in))
    /\ Len(last.rx) = 1

(***************************************************************************)
(* Properties of SpecReg.                                                   *)
(***************************************************************************)
\* the queues other than k are as they were
OthersUnchanged(k) ==
    \A j \in DOMAIN queues_ \ {k} : queues_'[j] = queues_[j]

\* C12: a push of a message for ourselves changes no queue and is answered
\* with a receive (handed up when we have the queue of its key); any other
\* push goes to the queue under its key, and to no other, when there is one,
\* and fails without changing any queue when there is none.
C12_PushDispatch ==
    [][last'.op = "push" =>
         /\ waiting_for_ack_' = waiting_for_ack_
         /\ IF last'.dest = OurModemId
            THEN /\ queues_' = queues_
                 /\ last'.res = "loopback"
                 /\ Len(last'.rx) = IF last'.key \in DOMAIN queues_
                                    THEN 1 ELSE 0
                 /\ \A i \in 1..Len(last'.rx) :
                       /\ last'.rx[i].key = last'.key
                       /\ last'.rx[i].dest = OurModemId
            ELSE IF last'.key \in DOMAIN queues_
            THEN /\ last'.res \in {"pushed", "queue_full"}
                 /\ DOMAIN queues_' = DOMAIN queues_
                 /\ OthersUnchanged(last'.key)
                 /\ last'.rx = <<>>
                 /\ last'.res = "pushed" =>
                      LET ms == queues_'[last'.key].messages
                      IN  /\ Len(ms) > 0
                          /\ ms[Len(ms)].mid = next_mid
                          /\ ms[Len(ms)].mid \notin Mids(queues_[last'.key])
                 /\ last'.res = "queue_full" => queues_' = queues_
            ELSE /\ last'.res = "no_queue"
                 /\ queues_' = queues_
                 /\ last'.rx = <<>>]_vars

\* a message for ourselves was pushed under the key of a queue that holds a
\* message, and came back as a receive
C12_Witness ==
    /\ last.op = "push"
    /\ last.res = "loopback"
    /\ last.key \in DOMAIN queues_
    /\ size(queues_[last.key]) > 0
    /\ Len(last.rx) = 1

\* C13: add_queue fails with DuplicateKey when the key has a queue, with
\* IdTooLarge when the key has none and is that of a DCCL queue with an id
\* above MAX_ID, and both times leaves the queues as they are; otherwise the
\* queues are those before and one new, empty queue under the key.
C13_AddQueue ==
    [][last'.op = "add_queue" =>
         IF last'.key \in DOMAIN queues_
         THEN last'.res = "DuplicateKey" /\ queues_' = queues_
         ELSE IF last'.key[1] = "dccl" /\ last'.key[2] > MAX_ID
         THEN last'.res = "IdTooLarge" /\ queues_' = queues_
         ELSE /\ last'.res = "added"
              /\ DOMAIN queues_' = DOMAIN queues_ \cup {last'.key}
              /\ Cardinality(DOMAIN queues_')
                    = Cardinality(DOMAIN queues_) + 1
              /\ \A j \in DOMAIN queues_ : queues_'[j] = queues_[j]
              /\ size(queues_'[last'.key]) = 0
              /\ queues_'[last'.key].cfg.id = last'.key[2]
              /\ queues_'[last'.key].cfg.type = last'.key[1]]_vars

\* a queue that holds a message was added again and refused
C13_Witness ==
    /\ last.op = "add_queue"
    /\ last.res = "DuplicateKey"
    /\ size(queues_[last.key]) > 0

(***************************************************************************)
(* Properties of SpecShore.                                                 *)
(***************************************************************************)
\* the remote id has a connection in clients_
HasClient(id) == LeftFind(clients_, id) # {}

\* clients_ relates an id to one connection and a connection to one id
OneToOne ==
    \A p \in clients_ : \A q \in clients_ :
        (p[1] = q[1] \/ p[2] = q[2]) => p = q

\* rudics_line and do_work never reach through an on_call that holds nothing
ClientsAreOnCall == \A p \in clients_ : remote_[p[1]].live

\* the step is a call of do_work
ShoreDoWorkStep == last'.op = "do_work"

\* the step is the arrival of a line that holds a packet from src
PacketStepFrom(src) ==
    /\ last'.op = "line"
    /\ RudicsPacketOk(last'.data)
    /\ parse_iridium_modem_message(last'.data).src = src

\* last_tx_time of the remote id where do_work tests it: the time of the
\* transmission the same do_work has just sent, if it sent one
TxAtTest(id) ==
    IF id \in last'.sent THEN now ELSE remote_[id].last_tx_time

\* the hangup condition for the remote id as do_work finds it
HangupCondition(id) ==
    LET rx_tx == IF TxAtTest(id) > remote_[id].last_rx_time
                 THEN TxAtTest(id) ELSE remote_[id].last_rx_time
    IN  \/ /\ remote_[id].bye_sent \/ id \in last'.bye_set
           /\ remote_[id].bye_received
        \/ now > rx_tx + hangup_seconds_after_empty

\* the step hangs the remote id up: its on_call is dropped, its connection
\* is closed and has left clients_
HungUp(id) ==
    /\ ~remote_'[id].live
    /\ \E p \in LeftFind(clients_, id) :
          p \notin clients_' /\ p[2] \notin connections_'

\* C17: in every do_work a remote that is on a call is hung up (connection
\* closed and out of clients_, on_call dropped) if and only if bye was sent
\* and received or now > max(last_rx, last_tx) + hangup_seconds_after_empty.
C17_HangupIffDue ==
    [][ShoreDoWorkStep
          => \A id \in RemoteIds :
                remote_[id].live => (HungUp(id) <=> HangupCondition(id))]_vars

\* C18: in every state a remote id has a connection in clients_ if and only
\* if its on_call is set, and clients_ is one-to-one.
C18_ClientsIffOnCall ==
    /\ \A id \in RemoteIds : HasClient(id) <=> remote_[id].live
    /\ OneToOne

\* the line of the step is a greeting, with or without the null byte
GreetingStep ==
    last'.op = "line" /\ last'.data \in {GobyLine, NullGobyLine}

ByeWritten(id) ==
    \E p \in LeftFind(clients_, id) :
        \E i \in 1..Len(last'.wrote) : last'.wrote[i] = <<p[2], ByeLine>>

\* C20: in every do_work, for a remote on a call, "bye" is written to the
\* remote and bye_sent is set if and only if bye_sent was not set and
\* now > last_tx + handshake_hangup_seconds; and bye_sent, once set, stays
\* set as long as the remote is on the call.
C20_ByeExactlyWhenDue ==
    /\ [][ShoreDoWorkStep
            => \A id \in RemoteIds :
                  remote_[id].live
                    => ((ByeWritten(id) /\ id \in last'.bye_set)
                          <=> /\ ~remote_[id].bye_sent
                              /\ now > TxAtTest(id)
                                          + handshake_hangup_seconds)]_vars
    /\ [][\A id \in RemoteIds :
            remote_[id].live /\ remote_[id].bye_sent /\ remote_'[id].live
                => remote_'[id].bye_sent]_vars

(***************************************************************************)
(* Properties of SpecTx.                                                    *)
(***************************************************************************)
\* the step is the arrival of a line that holds a packet
PacketStep == last'.op = "line" /\ RudicsPacketOk(last'.data)

\* the ACK that answers msg: from us to its sender at its rate, for the
\* frames frame_start .. frame_start + frame_size - 1
AckFor(msg) ==
    [src |-> OurModemId, dest |-> msg.src, rate |-> msg.rate,
     type |-> TransmissionType.ACK, ack_requested |-> FALSE,
     frame_start |-> 0, frame |-> <<>>,
     acked_frame |->
        [k \in 1..Len(msg.frame) |-> msg.frame_start + k - 1]]

\* the step writes, to a connection of the sender of msg, a packet that
\* gives the remote end the ACK for msg with all its frame numbers
AckReaches(msg) ==
    \E i \in 1..Len(last'.wrote) :
        /\ <<msg.src, last'.wrote[i][1]>> \in clients_'
        /\ RudicsPacketOk(last'.wrote[i][2])
        /\ parse_iridium_modem_message(last'.wrote[i][2]) = AckFor(msg)

\* C21: a packet that is data, asks for an ACK and is addressed to us makes
\* the driver send one ACK (from us to the sender, same rate, every frame
\* number from frame_start on), which reaches the remote; any other packet
\* makes it send nothing; signal_receive is raised for every packet.
C21_AutomaticAck ==
    [][PacketStep
        => LET msg == parse_iridium_modem_message(last'.data)
           IN  /\ last'.rx = <<msg>>
               /\ IF /\ msg.type = TransmissionType.DATA
                     /\ msg.ack_requested
                     /\ msg.dest = OurModemId
                  THEN /\ last'.tx = <<AckFor(msg)>>
                       /\ Len(last'.wrote) = 1
                       /\ AckReaches(msg)
                  ELSE /\ last'.tx = <<>>
                       /\ last'.wrote = <<>>]_vars

\* C22: after shutdown() clients_ is empty and no remote is on a call.
C22_ShutdownDropsCalls ==
    [][last'.op = "shutdown"
        => /\ clients_' = {}
           /\ \A id \in RemoteIds : ~remote_'[id].live]_vars

\* the step sends bytes to the remote id: it writes to a connection of id
\* or sets its last_tx_time
SendsTo(id) ==
    \/ id \in last'.sent
    \/ \E i \in 1..Len(last'.wrote) :
          \E p \in LeftFind(clients_, id) \cup LeftFind(clients_', id) :
              last'.wrote[i][1] = p[2]

\* C24: no step (do_work, an initiated transmission, the ACK for a line)
\* sends bytes to a remote that is on a call at a time now earlier than
\* last_tx + last_bytes_sent / (target_bit_rate / 8).
C24_Paced ==
    [][last'.op \in {"do_work", "initiate", "line"}
        => \A id \in RemoteIds :
              remote_[id].live /\ SendsTo(id)
                => now * TargetBytesPerSecond
                      >= remote_[id].last_tx_time * TargetBytesPerSecond
                            + remote_[id].last_bytes_sent]_vars

\* the step is the arrival of a data line (neither greeting nor bye) that
\* is no packet
BadPacketStep ==
    /\ last'.op = "line"
    /\ ~IsGreeting(last'.data) /\ last'.data # ByeLine
    /\ ~RudicsPacketOk(last'.data)

NoImeiStep ==
    /\ last'.op = "initiate"
    /\ Len(last'.tx) = 1
    /\ last'.tx[1].rate = RATE_SBD
    /\ ~remote_[last'.tx[1].dest].live
    /\ last'.tx[1].dest \notin DOMAIN modem_id_to_imei_

\* C26: a transmission at the SBD rate for a remote that is not on a call
\* and has no IMEI is dropped: send_sbd_mt is not called, no connection to
\* the MT gateway is made, no bytes are written to the gateway or to a
\* RUDICS connection, and no on_call changes.
C26_NoImeiDrops ==
    [][NoImeiStep
        => /\ last'.mt = ""
           /\ last'.mt_connects = 0
           /\ last'.mt_wrote = <<>>
           /\ last'.wrote = <<>>
           /\ mt_client_id' = mt_client_id
           /\ remote_' = remote_
           /\ clients_' = clients_
           /\ ~halted']_vars

\* a transmission with data at the SBD rate has just been initiated for a
\* remote without IMEI that is not on a call, while another remote is
C26_Witness ==
    /\ last.op = "initiate"
    /\ last.has_data
    /\ last.tx = <<[last.msg EXCEPT !.frame = <<<<7>>>>]>>
    /\ last.msg.rate = RATE_SBD
    /\ last.msg.dest \notin DOMAIN modem_id_to_imei_
    /\ ~remote_[last.msg.dest].live
    /\ \E id \in RemoteIds : remote_[id].live

\* the step calls send_sbd_mt and the connection to the MT gateway fails
MtFailureStep ==
    /\ last'.op = "initiate"
    /\ last'.mt \in {"resolve", "connect", "write", "timeout"}

\* C27: when the address of the MT gateway does not resolve, no endpoint
\* connects, the write fails or no confirmation comes in time, send returns
\* to its caller and remote_, clients_ and the connections are as before.
C27_MtFailureAbsorbed ==
    [][MtFailureStep
        => /\ ~halted'
           /\ remote_' = remote_
           /\ clients_' = clients_
           /\ connections_' = connections_
           /\ last'.wrote = <<>>]_vars

\* a transmission for the remote with an IMEI has just been initiated at
\* the SBD rate while another remote is on a call, and the write to the MT
\* gateway failed
C27_Witness ==
    /\ last.op = "initiate"
    /\ last.mt = "write"
    /\ last.mt_connects = 1
    /\ last.msg.dest \in DOMAIN modem_id_to_imei_
    /\ clients_ # {}
    /\ ~halted

(***************************************************************************)
(* Further properties of SpecShore.                                         *)
(***************************************************************************)
\* the pacing slot of the remote id is due: now is later than last_tx plus
\* last_bytes_sent / (target_bit_rate / 8)
SlotDue(id) ==
    now * TargetBytesPerSecond
        > remote_[id].last_tx_time * TargetBytesPerSecond
            + remote_[id].last_bytes_sent

\* the step writes a packet to a connection of the remote id
PacketWritten(id) ==
    \E i \in 1..Len(last'.wrote) :
        /\ <<id, last'.wrote[i][1]>> \in clients_
        /\ RudicsPacketOk(last'.wrote[i][2])

\* the claim of C23 as it stands: a do_work that finds a remote on a call
\* with its slot due and no data for it writes a data transmission without
\* a frame to its connection and sets last_tx
C23_Original ==
    [][ShoreDoWorkStep
        => \A id \in RemoteIds :
              remote_[id].live /\ SlotDue(id) /\ id \notin last'.pending
                => /\ \E i \in 1..Len(last'.wrote) :
                          /\ <<id, last'.wrote[i][1]>> \in clients_
                          /\ last'.wrote[i][2]
                                = RudicsPacket(rudics_mac_msg_(id))
                   /\ id \in last'.sent]_vars

\* C23 (amended): a do_work that finds a remote on a call with its slot due
\* and no data for it sends no transmission to it: no packet is written to
\* its connection and last_tx and last_bytes_sent stay as they are.
C23_NoKeepalive ==
    [][ShoreDoWorkStep
        => \A id \in RemoteIds :
              remote_[id].live /\ SlotDue(id) /\ id \notin last'.pending
                => /\ ~PacketWritten(id)
                   /\ \A i \in 1..Len(last'.tx) : last'.tx[i].dest # id
                   /\ id \notin last'.sent
                   /\ remote_'[id].live
                        => /\ remote_'[id].last_tx_time
                                = remote_[id].last_tx_time
                           /\ remote_'[id].last_bytes_sent
                                = remote_[id].last_bytes_sent]_vars

\* do_work has just found a remote on a call, its slot due, bye not sent,
\* a connection for it in clients_ and no data for it
C23_Witness ==
    /\ last.op = "do_work"
    /\ \E id \in RemoteIds :
          /\ id \notin last.pending
          /\ remote_[id].live /\ ~remote_[id].bye_sent
          /\ SlotDue(id)
          /\ LeftFind(clients_, id) # {}

(***************************************************************************)
(* Properties of SpecMt.                                                    *)
(***************************************************************************)
\* the two bytes of n, the higher first
U16(n) == <<n \div 256, n % 256>>

\* the four bytes of n, the highest first
U32(n) ==
    <<n \div 16777216, (n \div 65536) % 256, (n \div 256) % 256, n % 256>>

\* C28: the message built for payload P and IMEI I is the pre-header
\* {1, length 24 + 3 + |P|}, the header {0x41, length 21, client id, the
\* 15 bytes of I, flags 0x0001} of 24 bytes and the payload element
\* {0x42, |P|, P}, all numbers big-endian; each message built takes the
\* client id one above that of the message before.
C28_MtFraming ==
    /\ [](last.op = "build"
            => /\ Len(last.imei) = 15
               /\ last.message
                    = <<1>> \o U16(24 + 3 + Len(last.bytes))
                        \o <<65>> \o U16(21) \o U32(last.client_id)
                        \o last.imei \o U16(1)
                        \o <<66>> \o U16(Len(last.bytes)) \o last.bytes
               /\ Len(SubSeq(last.message, 4, 27)) = 24)
    /\ [][last'.op = "build"
            => /\ last'.client_id = mt_client_id
               /\ mt_client_id' = mt_client_id + 1
               /\ last.op = "build"
                    => last'.client_id = last.client_id + 1]_vars

\* the second message was built, with a client id and an overall length
\* that need two bytes
C28_Witness ==
    /\ last.op = "build"
    /\ last.client_id = 256
    /\ Len(last.bytes) = 229
    /\ last.imei = OtherImei

(***************************************************************************)
(* Properties of SpecSbd.                                                   *)
(***************************************************************************)
\* the SBD-MO connections the server holds, by name
MoNames == {c.name : c \in mo_connections_}

\* how often the step processed the connection name
TimesProcessed(name) ==
    Cardinality({i \in 1..Len(last'.mo_processed) :
                    last'.mo_processed[i] = name})

\* C29: a do_work that finds the message of an SBD-MO connection complete
\* processes it once (signal_receive gets the transmission if the payload is
\* a packet) and removes the connection, also if the payload is no packet; a
\* do_work later than 5 seconds after the connection was accepted removes
\* it; every connection accepted is removed in the end.
C29_MoLifetime ==
    /\ [][ShoreDoWorkStep
            => \A c \in mo_connections_ :
                  /\ c.data_ready
                        => /\ c \notin mo_connections_'
                           /\ TimesProcessed(c.name) = 1
                           /\ RudicsPacketOk(c.payload)
                                => \E i \in 1..Len(last'.rx) :
                                      last'.rx[i]
                                        = parse_iridium_modem_message(
                                              c.payload)
                  /\ ~c.data_ready
                        => /\ TimesProcessed(c.name) = 0
                           /\ now > c.connect_time + 5
                                => c \notin mo_connections_']_vars
    /\ \A name \in MoConns : (name \in MoNames) ~> (name \notin MoNames)

(***************************************************************************)
(* Properties of SpecArith.                                                 *)
(***************************************************************************)
Dist(a, b) == IF a < b THEN b - a ELSE a - b

\* k is a nearest integer to the number v
NearestInteger(k, v) == 2 * Dist(k * Unit, v) <= Unit

\* r is a number of p decimals nearest to the number v
NearestDecimals(r, v, p) ==
    /\ r % (Unit \div Pow10(p)) = 0
    /\ 2 * Dist(r, v) <= Unit \div Pow10(p)

\* the value of the field is within [min, max]
ArithInRange == last.f.min <= last.value /\ last.value <= last.f.max

\* (max - min) * 10^p + 2
ArithCodes == (last.f.max - last.f.min) * Pow10(last.f.precision) + 2 * Unit

\* the width is ceil(log2((max - min) * 10^p + 2)), a value out of range
\* encodes as zero, the code of a value in range is not zero and is below
\* 2^width, and zero decodes to absent
ArithFrame ==
    /\ last.op = "encode"
         => /\ Pow2(last.size) * Unit >= ArithCodes
            /\ last.size > 0 => Pow2(last.size - 1) * Unit < ArithCodes
            /\ ~ArithInRange => last.bits = 0
            /\ ArithInRange => last.bits # 0 /\ last.bits < Pow2(last.size)
    /\ last.op = "decode" /\ last.bits = 0 => last.decoded.null

C31_RoundTrip ==
    /\ last.op = "decode" /\ last.from = "encode" /\ ArithInRange
         => /\ ~last.decoded.null
            /\ NearestDecimals(last.decoded.value, last.value,
                               last.f.precision)
    /\ last.op = "decode" /\ last.from = "encode_empty" => last.decoded.null

(***************************************************************************)
(* Properties of SpecPkt.                                                   *)
(***************************************************************************)
\* the user frames the step gave out of queue k: their positions in given
GivenOf(k) == {i \in 1..Len(last'.given) : last'.given[i].key = k}

\* C32: a provide_outgoing for frame 0 or 1 leaves in the pending-ACK table
\* and in the ACK tracking of the queues only what it gave out itself, sets
\* the packet ACK flag from its own user frames only, and removes no message
\* but those it gave out and popped; a provide_outgoing for another frame
\* keeps every pending entry and the packet ACK flag, and the ACK value of
\* its request is the packet ACK flag.
C32_PacketReset ==
    [][last'.op = "provide_outgoing"
         => IF last'.frame \in {0, 1}
            THEN /\ \A k \in DOMAIN queues_' :
                      /\ CopiesIn(<<last'.frame, k>>, waiting_for_ack_')
                           = Cardinality({i \in GivenOf(k) :
                                             ~last'.given[i].popped})
                      /\ \A e \in BagToSet(queues_'[k].waiting_for_ack) :
                            /\ e[1] = last'.frame
                            /\ \E i \in GivenOf(k) :
                                  last'.given[i].msg.mid = e[2]
                      /\ \A mid \in Mids(queues_[k]) :
                            mid \in Mids(queues_'[k])
                            \/ \E i \in GivenOf(k) :
                                  /\ last'.given[i].msg.mid = mid
                                  /\ last'.given[i].popped
                 /\ \A e \in BagToSet(waiting_for_ack_') : e[1] = last'.frame
                 /\ packet_ack_'
                      = \E i \in 1..Len(last'.given) : last'.given[i].msg.ack
            ELSE /\ waiting_for_ack_ \sqsubseteq waiting_for_ack_'
                 /\ \A k \in DOMAIN queues_ :
                      queues_[k].waiting_for_ack
                          \sqsubseteq queues_'[k].waiting_for_ack
                 /\ packet_ack_ => packet_ack_'
                 /\ last'.request_ack = packet_ack_]_vars

\* a packet was started under frame 1 while ACKs were pending
C32_Witness ==
    /\ last.op = "provide_outgoing"
    /\ last.frame = 1
    /\ last.pending_before > 0

\* C38: request_next_destination leaves the pending-ACK table and the ACK
\* tracking of every queue empty and packet_ack_ reset, with every message
\* still queued; a handle_ack that follows it, for whatever frame, removes
\* no message and calls nothing back.
C38_DestinationRequestClears ==
    [][/\ last'.op = "request_next_destination"
            => /\ waiting_for_ack_' = EmptyBag
               /\ ~packet_ack_'
               /\ \A k \in DOMAIN queues_ :
                    /\ queues_'[k].waiting_for_ack = EmptyBag
                    /\ queues_'[k].messages = queues_[k].messages
       /\ (last.op = "request_next_destination" /\ last'.op = "handle_ack")
            => /\ last'.acked = <<>>
               /\ queues_' = queues_
               /\ waiting_for_ack_' = EmptyBag]_vars

\* request_next_destination has dropped pending ACKs of messages that are
\* still queued
C38_Witness ==
    /\ last.op = "request_next_destination"
    /\ last.pending_before > 0
    /\ \E k \in DOMAIN queues_ :
         \E i \in 1..Len(queues_[k].messages) : queues_[k].messages[i].ack

\* the callback_ack calls of the step that name a message of queue k
AckedOf(k) ==
    {last'.acked[j].mid : j \in {i \in 1..Len(last'.acked) :
                                    last'.acked[i].key = k}}

\* the step is a handle_modem_ack for f addressed to us, and the do_work
\* just before it has expired a message of queue k that waited for the ACK
\* of f
AckAfterExpiry(f, k) ==
    /\ last.op = "do_work"
    /\ <<f, k>> \in last.gone
    /\ AckStepFor(f)

\* C39 as stated: a handle_ack for f addressed to us, after a message of
\* queue k given out under f has expired, calls callback_ack for no message
\* of queue k, removes no message of queue k and leaves no entry for f in
\* the manager's table.
C39_Original ==
    [][\A f \in PktFrames : \A k \in DOMAIN queues_ :
         AckAfterExpiry(f, k)
           => /\ AckedOf(k) = {}
              /\ queues_'[k].messages = queues_[k].messages
              /\ EntriesOfFrame(waiting_for_ack_', f) = {}]_vars

\* C39 (amended): such a handle_ack calls callback_ack for the messages of
\* queue k that still wait under f and for no other, removes exactly those
\* from queue k, and leaves no entry for f in the manager's table.
C39_AckAfterExpiry ==
    [][\A f \in PktFrames : \A k \in DOMAIN queues_ :
         AckAfterExpiry(f, k)
           => /\ AckedOf(k) = WaitingUnder(queues_[k], f)
              /\ queues_'[k].messages
                   = SelectSeq(queues_[k].messages,
                               LAMBDA m : m.mid \notin
                                              WaitingUnder(queues_[k], f))
              /\ EntriesOfFrame(waiting_for_ack_', f) = {}]_vars

\* an ACK addressed to us has come for a frame of which a message that
\* waited for it had just expired, and nothing was called back
C39_Witness ==
    /\ last.op = "handle_ack"
    /\ last.dest = OurModemId
    /\ last.gone # {}
    /\ last.acked = <<>>
    /\ EntriesOfFrame(waiting_for_ack_, last.frame) = {}

(***************************************************************************)
(* Further properties of SpecPri.                                           *)
(***************************************************************************)
\* the sizes of the first n user frames given out, summed
RECURSIVE GivenSize(_, _)
GivenSize(given, n) ==
    IF n = 0 THEN 0 ELSE GivenSize(given, n - 1) + given[n].msg.size

\* C33: the packet of a provide_outgoing is as long as the sizes of its user
\* frames together and no longer than the size asked for; the capacity left
\* after each user frame is not below zero; a further user frame was looked
\* for only while the capacity left was above the DCCL head size and the
\* frame before was not CCL.
C33_SlotFill ==
    last.op = "provide_outgoing"
      => /\ Len(last.out) = GivenSize(last.given, Len(last.given))
         /\ GivenSize(last.given, Len(last.given)) <= last.size
         /\ \A i \in 1..Len(last.given) :
               last.size - GivenSize(last.given, i) >= 0
         /\ \A i \in 1..(Len(last.given) - 1) :
               /\ last.size - GivenSize(last.given, i) > DCCL_NUM_HEADER_BYTES
               /\ last.given[i].key[1] # "ccl"

\* a packet of two user frames, and a packet that a CCL frame ended with
\* room left
C33_Witness ==
    /\ last.op = "provide_outgoing"
    /\ \/ Len(last.given) = 2
       \/ /\ Len(last.given) = 1
          /\ last.given[1].key[1] = "ccl"
          /\ last.size - last.given[1].msg.size > DCCL_NUM_HEADER_BYTES
          /\ \E k \in DOMAIN queues_ : k[1] = "dccl" /\ size(queues_[k]) > 0

(***************************************************************************)
(* Properties of SpecDemand.                                                *)
(***************************************************************************)
\* C34: every on-demand staleness test and every priority evaluation of a
\* provide_outgoing reads the time the provide_outgoing started at.
C34_OneNow ==
    last.op = "provide_outgoing"
      => \A i \in 1..Len(last.visits) :
            /\ last.visits[i].at_priority = last.started
            /\ last.visits[i].on_demand /\ last.visits[i].size > 0
                 => last.visits[i].at = last.started

\* C35: in every contest an on-demand queue triggers the upcall exactly when
\* it is empty or its newest message is older than ON_DEMAND_SKEW at the test;
\* the record is in the queue when the queue's priority is evaluated; a queue
\* not marked on-demand never triggers the upcall.
C35_OnDemandUpcall ==
    last.op = "provide_outgoing"
      => \A i \in 1..Len(last.visits) :
           LET v == last.visits[i]
           IN  /\ v.upcall <=> /\ v.on_demand
                               /\ \/ v.size = 0
                                  \/ v.at - v.newest > ON_DEMAND_SKEW
               /\ v.upcall => v.size_at_priority = v.size + 1
               /\ ~v.upcall => v.size_at_priority = v.size

\* one packet saw a stale non-empty on-demand queue trigger the upcall and a
\* fresh non-empty on-demand queue not trigger it
C35_Witness ==
    /\ last.op = "provide_outgoing"
    /\ \E i \in 1..Len(last.visits) :
         /\ last.visits[i].upcall
         /\ last.visits[i].size > 0
    /\ \E i \in 1..Len(last.visits) :
         /\ last.visits[i].on_demand
         /\ ~last.visits[i].upcall
         /\ last.visits[i].size > 0

(***************************************************************************)
(* Properties of SpecApp.                                                   *)
(***************************************************************************)
\* the times the driver was handed the Tx message id
Deliveries(id) ==
    Cardinality({i \in 1..Len(app_.delivered) : app_.delivered[i] = id})

\* C36: whenever loop() has returned with the pending flag cleared, the Tx
\* message the subscription handler stored last has been handed to the
\* driver exactly once.
C36_DeliveredOnce ==
    app_.stack = <<>> /\ ~app_.initiate_transmit_pending_ /\ app_.tx > 0
      => Deliveries(app_.tx) = 1

\* C40: a data request that ends with the message replaced took a response
\* that was handled after the request was published; a request during which
\* no response was handled ends on the time with the message as it was; a
\* response handled before the request was published is never taken.
C40_ResponseMatching ==
    \A i \in 1..Len(app_.done) :
        LET d == app_.done[i]
        IN  /\ d.timeout <=> d.arrived = 0
            /\ d.timeout
                 => d.msg = [kind |-> "request", to |-> d.to, during |-> 0]
            /\ ~d.timeout
                 => /\ d.msg.kind = "response"
                    /\ d.msg.during = d.to

\* the second data request has ended on the time although a response that
\* had been handled before it was published is held
C40_Witness ==
    /\ Len(app_.done) = 2
    /\ app_.done[2].timeout
    /\ app_.data_response_.kind = "response"
    /\ app_.data_response_.during < app_.done[2].to

(***************************************************************************)
(* Further properties of SpecTx.                                            *)
(***************************************************************************)
\* C37: a transmission that handle_initiate_transmission sends at the
\* RUDICS rate goes to a remote whose OnCall record exists.
C37_SendFindsOnCall ==
    [][(/\ last'.op = "initiate"
        /\ last'.has_data
        /\ last'.msg.rate = RATE_RUDICS)
         => remote_[last'.msg.dest].live]_vars

====
